---- MODULE Spec2Model ----
(***************************************************************************)
(* A model of rairplay's session-negotiation message model                 *)
(* (airplay/src/rtsp/dto.rs) and of the trancode2file example's video path *)
(* (examples/trancode2file/src/video.rs, ui.rs).                           *)
(*                                                                         *)
(* Three specifications share the module's variables:                      *)
(*   SpecDto  the serde decode/encode functions of dto.rs, applied to      *)
(*            message bodies a sender assembles;                           *)
(*   SpecBox  detect_codec, extract_codec_record and find_box_payload of   *)
(*            video.rs, applied to header buffers assembled byte by byte;  *)
(*   Spec     the per-stream worker video.rs::transcode, its packet        *)
(*            channel and its GStreamer pipeline contexts.                 *)
(* usize is taken to be 64 bits wide (the example decodes with vtdec_hw,   *)
(* a 64-bit platform), so cursor + size never wraps for a u32 size.        *)
(***************************************************************************)
EXTENDS Integers, Sequences, FiniteSets, TLC

(* ------------------------------ bounds --------------------------------- *)

\* how many edits a sender applies to a template body before it is decoded
MaxEdits == 2
\* how many operations assemble a header buffer before it is parsed
MaxOps == 3
\* the longest payload of a record put into a header buffer
MaxPayload == 2
\* how many packets the producers of a session send on its streams' channels
MaxPackets == 4
\* how many messages wait on a pipeline's bus
MaxBus == 1
\* how many frames the decode pipelines hand to the frame sink
MaxFrames == 5
\* packets sent on the stream whose closure is followed to the worker's return
MaxLive == 3

VARIABLES
    body,         \* dto: the message body under construction
    edits,        \* dto: number of edits applied to the template
    setupOut,     \* dto: result of the last SetupRequest decode
    teardownOut,  \* dto: result of the last Teardown decode
    respOut,      \* dto: the last encoded StreamResponse, with its variant
    header,       \* box: the header buffer (a sequence of bytes)
    nops,         \* box: number of operations that assembled the buffer
    codecOut,     \* box: result of the last detect_codec
    recordOut,    \* box: result of the last extract_codec_record
    boxOut,       \* box: result of the last find_box_payload
    chan,         \* worker: per stream, the packets in its mpsc channel
    closed,       \* worker: per stream, whether the producer dropped the Sender
    sent,         \* worker: per stream, how many packets were sent so far
    pc,           \* worker: per stream, where transcode is ("off": not spawned)
    ctx,          \* worker: per stream, `ctx`: 0 for None, else an index in pipes
    ret,          \* worker: per stream, what transcode returned ("" while running)
    pipes,        \* worker: per stream, every Context create_stream returned
    dropped,      \* worker: per stream, the payload packets dropped for want of a ctx
    queue,        \* ui: the frames waiting in the bounded frame channel
    frames,       \* ui: every frame handed to FrameSink::send, in the order of the calls
    received,     \* ui: the frames the window's task took from the channel, in order
    rxClosed,     \* ui: whether the Receiver was dropped
    lost,         \* ui: the frames send dropped, each with the TrySendError it met
    latest_frame  \* ui: VideoView::latest_frame, 0 for None

dtoVars == <<body, edits, setupOut, teardownOut, respOut>>
boxVars == <<header, nops, codecOut, recordOut, boxOut>>
workerVars == <<chan, closed, sent, pc, ctx, ret, pipes, dropped>>
uiVars == <<queue, frames, received, rxClosed, lost, latest_frame>>
vars == <<body, edits, setupOut, teardownOut, respOut,
          header, nops, codecOut, recordOut, boxOut,
          chan, closed, sent, pc, ctx, ret, pipes, dropped,
          queue, frames, received, rxClosed, lost, latest_frame>>

(* ======================================================================= *)
(*                       dto.rs : the message model                        *)
(* ======================================================================= *)

\* StreamId::AUDIO_REALTIME / AUDIO_BUFFERED / VIDEO
AUDIO_REALTIME == 96
AUDIO_BUFFERED == 103
VIDEO == 110

U16Max == 65535

(* A wire value: its kind (absent: the key is not in the map), and the     *)
(* string or the unsigned integer it carries.  TLC's integers are 32 bits  *)
(* wide, so an unsigned integer that fits a u32 is kind "uint" with its    *)
(* value n (below 2^31 in the inputs used), and one that only fits a u64   *)
(* is kind "huge".                                                         *)
Absent == [k |-> "absent", s |-> "", n |-> 0]
Str(x) == [k |-> "str", s |-> x, n |-> 0]
Data == [k |-> "bytes", s |-> "", n |-> 0]
UInt(x) == [k |-> "uint", s |-> "", n |-> x]
Huge == [k |-> "huge", s |-> "", n |-> 0]

\* what serde accepts for a field of each Rust type
IsString(v) == v.k = "str"
IsOptString(v) == v.k \in {"absent", "str"}
IsBytes(v) == v.k \in {"bytes", "str"}
IsU8(v) == v.k = "uint" /\ v.n <= 255
IsOptU8(v) == v.k = "absent" \/ IsU8(v)
IsU16(v) == v.k = "uint" /\ v.n <= U16Max
IsU32(v) == v.k = "uint"
IsU64(v) == v.k \in {"uint", "huge"}
IsOptU64(v) == v.k = "absent" \/ IsU64(v)
IsI64(v) == v.k = "uint"

InfoFields ==
    {"name", "model", "deviceID", "macAddress", "osName", "osVersion",
     "osBuildVersion", "ekey", "eiv", "timingProtocol", "timingPort"}

ElemFields ==
    {"type", "streamID", "ct", "audioFormat", "audioFormatIndex", "spf", "sr",
     "latencyMin", "latencyMax", "controlPort", "shk", "clientID",
     "streamConnectionID", "latencyMs"}

(* A decode result. tag is the variant produced, or "Err"; msg and code    *)
(* are the serde error (code: the offending stream type).                  *)
Ok(tag, timing, port, requests) ==
    [tag |-> tag, timing |-> timing, port |-> port, requests |-> requests,
     msg |-> "", code |-> 0]
Err(msg, code) ==
    [tag |-> "Err", timing |-> "", port |-> 0, requests |-> <<>>,
     msg |-> msg, code |-> code]
NoResult == [tag |-> "NoResult", timing |-> "", port |-> 0, requests |-> <<>>,
             msg |-> "", code |-> 0]

\* mutant: timingPort is read for every timing protocol
TimingProtocol_deserialize_PortAlways(m) ==
    IF m["timingProtocol"].k = "absent" THEN Err("missing field timingProtocol", 0)
    ELSE IF ~IsString(m["timingProtocol"]) THEN Err("invalid type for timingProtocol", 0)
    ELSE IF m["timingProtocol"].s \notin {"PTP", "NTP"}
         THEN Err("unknown variant of TimingProtocol", 0)
    ELSE IF ~IsU16(m["timingPort"]) THEN Err("missing or invalid field timingPort", 0)
    ELSE IF m["timingProtocol"].s = "PTP" THEN Ok("SenderInfo", "Ptp", 0, <<>>)
    ELSE Ok("SenderInfo", "Ntp", m["timingPort"].n, <<>>)

\* enum TimingProtocol, internally tagged by "timingProtocol"
TimingProtocol_deserialize(m) ==
    IF m["timingProtocol"].k = "absent" THEN Err("missing field timingProtocol", 0)
    ELSE IF ~IsString(m["timingProtocol"]) THEN Err("invalid type for timingProtocol", 0)
    ELSE IF m["timingProtocol"].s = "PTP" THEN Ok("SenderInfo", "Ptp", 0, <<>>)
    ELSE IF m["timingProtocol"].s = "NTP"
         THEN IF IsU16(m["timingPort"])
              THEN Ok("SenderInfo", "Ntp", m["timingPort"].n, <<>>)
              ELSE Err("missing or invalid field timingPort", 0)
    ELSE Err("unknown variant of TimingProtocol", 0)

\* struct SenderInfo: required fields, Option fields, the flattened enum
SenderInfo_deserialize(m) ==
    IF ~(/\ IsString(m["name"])
         /\ IsString(m["model"])
         /\ IsString(m["deviceID"])
         /\ IsString(m["macAddress"])
         /\ IsOptString(m["osName"])
         /\ IsOptString(m["osVersion"])
         /\ IsOptString(m["osBuildVersion"])
         /\ IsBytes(m["ekey"])
         /\ IsBytes(m["eiv"]))
    THEN Err("missing or invalid field of SenderInfo", 0)
    ELSE TimingProtocol_deserialize(m)

AudioRealtimeRequest_deserialize(e) ==
    /\ IsU8(e["ct"])
    /\ IsU32(e["audioFormat"])
    /\ IsU32(e["spf"])
    /\ IsU32(e["sr"])
    /\ IsU32(e["latencyMin"])
    /\ IsU32(e["latencyMax"])
    /\ IsU16(e["controlPort"])

AudioBufferedRequest_deserialize(e) ==
    /\ IsU8(e["ct"])
    /\ IsU32(e["audioFormat"])
    /\ IsOptU8(e["audioFormatIndex"])
    /\ IsU32(e["spf"])
    /\ IsBytes(e["shk"])
    /\ e["clientID"].k \in {"absent", "str"}

VideoRequest_deserialize(e) ==
    /\ IsI64(e["streamConnectionID"])
    /\ IsU32(e["latencyMs"])

(* impl Deserialize for StreamRequest: the {type, ..} envelope first, then *)
(* the variant the type code selects.  The result's tag is the variant.    *)
StreamRequest_deserialize(e) ==
    IF ~IsU32(e["type"]) THEN Err("missing or invalid field type", 0)
    ELSE IF e["type"].n = AUDIO_REALTIME
         THEN IF AudioRealtimeRequest_deserialize(e)
              THEN Ok("AudioRealtime", "", 0, <<>>)
              ELSE Err("invalid AudioRealtimeRequest", 0)
    ELSE IF e["type"].n = AUDIO_BUFFERED
         THEN IF AudioBufferedRequest_deserialize(e)
              THEN Ok("AudioBuffered", "", 0, <<>>)
              ELSE Err("invalid AudioBufferedRequest", 0)
    ELSE IF e["type"].n = VIDEO
         THEN IF VideoRequest_deserialize(e)
              THEN Ok("Video", "", 0, <<>>)
              ELSE Err("invalid VideoRequest", 0)
    ELSE Err("unknown stream type", e["type"].n)

\* the first element of a list whose decode fails, 0 if none does
FirstBad(l) ==
    IF \E i \in 1..Len(l) : StreamRequest_deserialize(l[i]).tag = "Err"
    THEN CHOOSE i \in 1..Len(l) :
            /\ StreamRequest_deserialize(l[i]).tag = "Err"
            /\ \A j \in 1..(i - 1) : StreamRequest_deserialize(l[j]).tag # "Err"
    ELSE 0

\* mutant: the requests are collected in the reverse of the list's order
Streams_deserialize_Reversed(b) ==
    IF b.streams.k = "absent" THEN Err("missing field streams", 0)
    ELSE IF b.streams.k # "list" THEN Err("invalid type for streams", 0)
    ELSE IF FirstBad(b.streams.l) # 0
         THEN StreamRequest_deserialize(b.streams.l[FirstBad(b.streams.l)])
    ELSE Ok("Streams", "", 0,
            [i \in 1..Len(b.streams.l) |->
                StreamRequest_deserialize(b.streams.l[Len(b.streams.l) + 1 - i]).tag])

\* mutant: a failing element is skipped instead of failing the list
Streams_deserialize_SkipFailing(b) ==
    IF b.streams.k = "absent" THEN Err("missing field streams", 0)
    ELSE IF b.streams.k # "list" THEN Err("invalid type for streams", 0)
    ELSE Ok("Streams", "", 0,
            [i \in 1..Len(SelectSeq(b.streams.l,
                    LAMBDA e : StreamRequest_deserialize(e).tag # "Err")) |->
                StreamRequest_deserialize(SelectSeq(b.streams.l,
                    LAMBDA e : StreamRequest_deserialize(e).tag # "Err")[i]).tag])

(* SetupRequest::Streams { requests: Vec<StreamRequest> }: the field       *)
(* "streams" must be a list; the first failing element fails the Vec.      *)
Streams_deserialize(b) ==
    IF b.streams.k = "absent" THEN Err("missing field streams", 0)
    ELSE IF b.streams.k # "list" THEN Err("invalid type for streams", 0)
    ELSE IF FirstBad(b.streams.l) # 0
         THEN StreamRequest_deserialize(b.streams.l[FirstBad(b.streams.l)])
    ELSE Ok("Streams", "", 0,
            [i \in 1..Len(b.streams.l) |->
                StreamRequest_deserialize(b.streams.l[i]).tag])

\* mutant: the variants are tried in the other order
SetupRequest_deserialize_StreamsFirst(b) ==
    IF Streams_deserialize(b).tag # "Err"
    THEN Streams_deserialize(b)
    ELSE IF SenderInfo_deserialize(b.info).tag # "Err"
         THEN SenderInfo_deserialize(b.info)
    ELSE Err("data did not match any variant of untagged enum SetupRequest", 0)

(* #[serde(untagged)] enum SetupRequest: the variants are tried in the     *)
(* order they are declared, the first that decodes wins, and when none     *)
(* does the variants' own errors are replaced by one fixed message.        *)
SetupRequest_deserialize(b) ==
    IF SenderInfo_deserialize(b.info).tag # "Err"
    THEN SenderInfo_deserialize(b.info)
    ELSE IF Streams_deserialize(b).tag # "Err"
         THEN Streams_deserialize(b)
    ELSE Err("data did not match any variant of untagged enum SetupRequest", 0)

\* struct TeardownRequest { id: Option<u64>, ty: u32 }
TeardownRequest_deserialize(e) ==
    IF IsOptU64(e["streamID"]) /\ IsU32(e["type"])
    THEN Ok("TeardownRequest", "", 0, <<>>)
    ELSE Err("missing or invalid field of TeardownRequest", 0)

\* mutant: a present, empty list is not told from an absent one
Teardown_deserialize_EmptyAsNone(b) ==
    IF b.streams.k = "absent" \/ b.streams = [k |-> "list", l |-> <<>>]
    THEN Ok("None", "", 0, <<>>)
    ELSE IF b.streams.k # "list" THEN Err("invalid type for streams", 0)
    ELSE IF \E i \in 1..Len(b.streams.l) :
                TeardownRequest_deserialize(b.streams.l[i]).tag = "Err"
         THEN Err("missing or invalid field of TeardownRequest", 0)
    ELSE Ok("Some", "", 0,
            [i \in 1..Len(b.streams.l) |-> b.streams.l[i]["type"].n])

(* struct Teardown { requests: Option<Vec<TeardownRequest>> }: tag "None"  *)
(* when the field is absent, "Some" with one entry per element otherwise.  *)
Teardown_deserialize(b) ==
    IF b.streams.k = "absent" THEN Ok("None", "", 0, <<>>)
    ELSE IF b.streams.k # "list" THEN Err("invalid type for streams", 0)
    ELSE IF \E i \in 1..Len(b.streams.l) :
                TeardownRequest_deserialize(b.streams.l[i]).tag = "Err"
         THEN Err("missing or invalid field of TeardownRequest", 0)
    ELSE Ok("Some", "", 0,
            [i \in 1..Len(b.streams.l) |-> b.streams.l[i]["type"].n])

(* impl Serialize for StreamResponse: the fields in the order written.     *)
Field(name, value) == [name |-> name, value |-> value]

\* mutant: the Video response is written with the buffered-audio code
StreamResponse_serialize_VideoAs103(r) ==
    IF r.variant = "AudioRealtime"
    THEN << Field("type", AUDIO_REALTIME), Field("streamID", r.id),
            Field("dataPort", r.local_data_port),
            Field("controlPort", r.extra) >>
    ELSE IF r.variant = "AudioBuffered"
    THEN << Field("type", AUDIO_BUFFERED), Field("streamID", r.id),
            Field("dataPort", r.local_data_port),
            Field("audioBufferSize", r.extra) >>
    ELSE << Field("type", AUDIO_BUFFERED), Field("streamID", r.id),
            Field("dataPort", r.local_data_port) >>

StreamResponse_serialize(r) ==
    IF r.variant = "AudioRealtime"
    THEN << Field("type", AUDIO_REALTIME), Field("streamID", r.id),
            Field("dataPort", r.local_data_port),
            Field("controlPort", r.extra) >>
    ELSE IF r.variant = "AudioBuffered"
    THEN << Field("type", AUDIO_BUFFERED), Field("streamID", r.id),
            Field("dataPort", r.local_data_port),
            Field("audioBufferSize", r.extra) >>
    ELSE << Field("type", VIDEO), Field("streamID", r.id),
            Field("dataPort", r.local_data_port) >>

(* ======================================================================= *)
(*        video.rs : detect_codec, extract_codec_record, the box walker     *)
(* ======================================================================= *)

(* Bytes are 0..255.  TLC's integers are 32 bits wide, so the buffers used  *)
(* hold bytes below 128 only: a size field then stays below 2^31.           *)

\* the four-character tags, as bytes
avcC == <<97, 118, 99, 67>>
hvcC == <<104, 118, 99, 67>>
avc1 == <<97, 118, 99, 49>>
hvc1 == <<104, 118, 99, 49>>
hev1 == <<104, 101, 118, 49>>
stsd == <<115, 116, 115, 100>>
trak == <<116, 114, 97, 107>>
mdia == <<109, 100, 105, 97>>
minf == <<109, 105, 110, 102>>
stbl == <<115, 116, 98, 108>>
free == <<102, 114, 101, 101>>

\* matches!(kind, b"avc1" | b"hvc1" | b"hev1")
SampleEntryKinds == {avc1, hvc1, hev1}
\* matches!(kind, b"stsd" | b"trak" | b"mdia" | b"minf" | b"stbl")
ContainerKinds == {stsd, trak, mdia, minf, stbl}

VIDEO_SAMPLE_ENTRY_FIELDS_LEN == 78

\* the Rust slice buf[lo..hi], and whether taking it panics
Slice(buf, lo, hi) == SubSeq(buf, lo + 1, hi)
InBounds(buf, lo, hi) == lo <= hi /\ hi <= Len(buf)

\* u32::from_be_bytes
from_be_bytes(b) == ((b[1] * 256 + b[2]) * 256 + b[3]) * 256 + b[4]

(* An Option<Vec<u8>> result: tag "None" or "Some" (with val), or "Panic"   *)
(* when a slice index is out of range.  trace lists the records visited:    *)
(* the range [start, limit) of the parse_range call, the cursor, the size   *)
(* taken for the record and hi, the end of the last slice read.  walked     *)
(* and marker record whether, and for which tag, the walker was invoked.    *)
Step(start, limit, cursor, size, hi) ==
    [start |-> start, limit |-> limit, cursor |-> cursor, size |-> size, hi |-> hi]
None(trace) == [tag |-> "None", val |-> <<>>, trace |-> trace]
Some(val, trace) == [tag |-> "Some", val |-> val, trace |-> trace]
Panic(trace) == [tag |-> "Panic", val |-> <<>>, trace |-> trace]
Via(step, r) == [r EXCEPT !.trace = <<step>> \o @]

\* mutant: a declared length of zero is taken as it is
record_size_NoZeroRule(raw, cursor, limit) == raw

\* `if size == 0 { size = limit - cursor; }`
record_size(raw, cursor, limit) == IF raw = 0 THEN limit - cursor ELSE raw

\* mutant: the record's end is not checked against the range
rejected_NoLimitCheck(size, cursor, limit) == size < 8

\* `if size < 8 || cursor + size > limit { return None; }`
\* mutant: a size below the header's 8 bytes is let through
rejected_AllowShort(size, cursor, limit) == cursor + size > limit

rejected(size, cursor, limit) == size < 8 \/ cursor + size > limit

\* mutant: the fixed fields of a sample entry are not skipped
body_start_NoSkip(kind, cursor) == cursor + 8

\* where the children of a record of this kind start
body_start(kind, cursor) ==
    IF kind \in SampleEntryKinds
    THEN cursor + 8 + VIDEO_SAMPLE_ENTRY_FIELDS_LEN
    ELSE cursor + 8

\* mutant: the body of every record that is not the target is searched
descends_Any(kind) == TRUE

\* the kinds whose body is searched
descends(kind) == kind \in SampleEntryKinds \cup ContainerKinds

(* mutant: the records that follow in the range are searched before the    *)
(* body of a container or sample entry is                                  *)
RECURSIVE parse_loop_SiblingsFirst(_, _, _, _, _)
parse_loop_SiblingsFirst(buf, start, cursor, limit, marker) ==
    IF ~(cursor + 8 <= limit) THEN None(<<>>)
    ELSE IF ~InBounds(buf, cursor, cursor + 4)
    THEN Panic(<<Step(start, limit, cursor, 0, cursor + 4)>>)
    ELSE
    LET size == record_size(from_be_bytes(Slice(buf, cursor, cursor + 4)), cursor, limit)
    IN
    IF rejected(size, cursor, limit)
    THEN None(<<Step(start, limit, cursor, size, cursor + 4)>>)
    ELSE IF ~InBounds(buf, cursor + 4, cursor + 8)
    THEN Panic(<<Step(start, limit, cursor, size, cursor + 8)>>)
    ELSE
    LET kind == Slice(buf, cursor + 4, cursor + 8) IN
    IF kind = marker
    THEN IF InBounds(buf, cursor + 8, cursor + size)
         THEN Some(Slice(buf, cursor + 8, cursor + size),
                   <<Step(start, limit, cursor, size, cursor + size)>>)
         ELSE Panic(<<Step(start, limit, cursor, size, cursor + size)>>)
    ELSE
    LET here == Step(start, limit, cursor, size, cursor + 8)
        rest == parse_loop_SiblingsFirst(buf, start, cursor + size, limit, marker)
    IN
    IF rest.tag # "None"
    THEN Via(here, rest)
    ELSE LET inner == IF descends(kind) /\ body_start(kind, cursor) < cursor + size
                      THEN parse_loop_SiblingsFirst(buf, body_start(kind, cursor),
                                                    body_start(kind, cursor),
                                                    cursor + size, marker)
                      ELSE None(<<>>)
         IN [inner EXCEPT !.trace = <<here>> \o rest.trace \o @]

(* mutant: a record rejected in a nested range ends the whole search, as   *)
(* if the nested `return None` were propagated with `?`                    *)
RECURSIVE parse_loop_AbortOnBad(_, _, _, _, _)
parse_loop_AbortOnBad(buf, start, cursor, limit, marker) ==
    IF ~(cursor + 8 <= limit) THEN None(<<>>)
    ELSE IF ~InBounds(buf, cursor, cursor + 4)
    THEN Panic(<<Step(start, limit, cursor, 0, cursor + 4)>>)
    ELSE
    LET size == record_size(from_be_bytes(Slice(buf, cursor, cursor + 4)), cursor, limit)
    IN
    IF rejected(size, cursor, limit)
    THEN None(<<Step(start, limit, cursor, size, cursor + 4)>>)
    ELSE IF ~InBounds(buf, cursor + 4, cursor + 8)
    THEN Panic(<<Step(start, limit, cursor, size, cursor + 8)>>)
    ELSE
    LET kind == Slice(buf, cursor + 4, cursor + 8) IN
    IF kind = marker
    THEN IF InBounds(buf, cursor + 8, cursor + size)
         THEN Some(Slice(buf, cursor + 8, cursor + size),
                   <<Step(start, limit, cursor, size, cursor + size)>>)
         ELSE Panic(<<Step(start, limit, cursor, size, cursor + size)>>)
    ELSE
    LET here == Step(start, limit, cursor, size, cursor + 8)
        inner == IF descends(kind) /\ body_start(kind, cursor) < cursor + size
                 THEN parse_loop_AbortOnBad(buf, body_start(kind, cursor),
                                            body_start(kind, cursor),
                                            cursor + size, marker)
                 ELSE None(<<>>)
        bad == /\ inner.trace # <<>>
               /\ LET last == inner.trace[Len(inner.trace)]
                  IN rejected(last.size, last.cursor, last.limit)
    IN
    IF inner.tag # "None" \/ bad
    THEN Via(here, inner)
    ELSE LET rest == parse_loop_AbortOnBad(buf, start, cursor + size, limit, marker)
         IN [rest EXCEPT !.trace = <<here>> \o inner.trace \o @]

(* find_box_payload::parse_range: the while loop from `cursor`, in the      *)
(* call whose range is [start, limit).                                      *)
RECURSIVE parse_loop(_, _, _, _, _)
parse_loop(buf, start, cursor, limit, marker) ==
    IF ~(cursor + 8 <= limit) THEN None(<<>>)
    ELSE IF ~InBounds(buf, cursor, cursor + 4)
    THEN Panic(<<Step(start, limit, cursor, 0, cursor + 4)>>)
    ELSE
    LET size == record_size(from_be_bytes(Slice(buf, cursor, cursor + 4)), cursor, limit)
    IN
    IF rejected(size, cursor, limit)
    THEN None(<<Step(start, limit, cursor, size, cursor + 4)>>)
    ELSE IF ~InBounds(buf, cursor + 4, cursor + 8)
    THEN Panic(<<Step(start, limit, cursor, size, cursor + 8)>>)
    ELSE
    LET kind == Slice(buf, cursor + 4, cursor + 8) IN
    IF kind = marker
    THEN IF InBounds(buf, cursor + 8, cursor + size)
         THEN Some(Slice(buf, cursor + 8, cursor + size),
                   <<Step(start, limit, cursor, size, cursor + size)>>)
         ELSE Panic(<<Step(start, limit, cursor, size, cursor + size)>>)
    ELSE
    LET here == Step(start, limit, cursor, size, cursor + 8)
        inner == IF descends(kind) /\ body_start(kind, cursor) < cursor + size
                 THEN parse_loop(buf, body_start(kind, cursor), body_start(kind, cursor),
                                 cursor + size, marker)
                 ELSE None(<<>>)
    IN
    IF inner.tag # "None"
    THEN Via(here, inner)
    ELSE LET rest == parse_loop(buf, start, cursor + size, limit, marker)
         IN [rest EXCEPT !.trace = <<here>> \o inner.trace \o @]

parse_range(buf, cursor, limit, marker) == parse_loop(buf, cursor, cursor, limit, marker)

find_box_payload(buf, marker) == parse_range(buf, 0, Len(buf), marker)

\* mutant: the hev1 sample entry is taken for H.265 as well
detect_codec_AlsoHev1(avcc) ==
    IF Len(avcc) >= 8
    THEN IF Slice(avcc, 4, 8) \in {hvc1, hev1} THEN "H265" ELSE "H264"
    ELSE "Unknown"

\* fn detect_codec
detect_codec(avcc) ==
    IF Len(avcc) >= 8
    THEN IF Slice(avcc, 4, 8) = hvc1 THEN "H265" ELSE "H264"
    ELSE "Unknown"

Called(r, codec, walked, marker) ==
    [tag |-> r.tag, val |-> r.val, trace |-> r.trace,
     codec |-> codec, walked |-> walked, marker |-> marker]

\* mutant: the codec family is looked at before the first byte
extract_codec_record_FamilyFirst(hdr, codec) ==
    IF codec = "Unknown"
    THEN Called(None(<<>>), codec, FALSE, <<>>)
    ELSE IF Len(hdr) > 0 /\ hdr[1] = 1
    THEN Called(Some(hdr, <<>>), codec, FALSE, <<>>)
    ELSE IF codec = "H264"
    THEN Called(find_box_payload(hdr, avcC), codec, TRUE, avcC)
    ELSE Called(find_box_payload(hdr, hvcC), codec, TRUE, hvcC)

\* fn extract_codec_record
extract_codec_record(hdr, codec) ==
    IF Len(hdr) > 0 /\ hdr[1] = 1
    THEN Called(Some(hdr, <<>>), codec, FALSE, <<>>)
    ELSE IF codec = "H264"
    THEN Called(find_box_payload(hdr, avcC), codec, TRUE, avcC)
    ELSE IF codec = "H265"
    THEN Called(find_box_payload(hdr, hvcC), codec, TRUE, hvcC)
    ELSE Called(None(<<>>), codec, FALSE, <<>>)

VideoCodec == {"H264", "H265", "Unknown"}

(* ----------------------- the bodies a sender builds --------------------- *)

ElemOf(assign) == [f \in ElemFields |-> IF f \in DOMAIN assign THEN assign[f] ELSE Absent]

AudioRealtimeFields ==
    [ct |-> UInt(2), audioFormat |-> UInt(262144), spf |-> UInt(352),
     sr |-> UInt(44100), latencyMin |-> UInt(11025), latencyMax |-> UInt(88200),
     controlPort |-> UInt(6001)]
AudioBufferedFields ==
    [ct |-> UInt(4), audioFormat |-> UInt(4194304), audioFormatIndex |-> UInt(22),
     spf |-> UInt(1024), shk |-> Data, clientID |-> Str("client")]
AudioBufferedMinFields ==
    [ct |-> UInt(4), audioFormat |-> UInt(4194304), spf |-> UInt(1024), shk |-> Data]
VideoFields ==
    [streamConnectionID |-> UInt(77), latencyMs |-> UInt(50)]
VideoBadFields ==
    [streamConnectionID |-> UInt(77), latencyMs |-> Str("fast")]

WithType(fields, ty) == ElemOf([f \in DOMAIN fields \cup {"type"} |->
                                  IF f = "type" THEN ty ELSE fields[f]])

\* the stream elements a sender may put in a `streams` list
Elems ==
    { WithType(AudioRealtimeFields, UInt(AUDIO_REALTIME)),
      WithType(AudioBufferedFields, UInt(AUDIO_BUFFERED)),
      WithType(AudioBufferedMinFields, UInt(AUDIO_BUFFERED)),
      WithType(VideoFields, UInt(VIDEO)),
      WithType(VideoFields, UInt(0)),
      WithType(AudioRealtimeFields, UInt(97)),
      WithType(VideoFields, UInt(AUDIO_REALTIME)),
      WithType(VideoBadFields, UInt(VIDEO)),
      WithType(VideoFields, Str("110")),
      WithType(VideoFields, Huge),
      ElemOf(VideoFields),
      ElemOf([streamID |-> UInt(5), type |-> UInt(VIDEO)]) }

NoStreams == [k |-> "absent", l |-> <<>>]
BadStreams == [k |-> "bad", l |-> <<>>]
List(l) == [k |-> "list", l |-> l]

InfoOf(assign) == [f \in InfoFields |-> IF f \in DOMAIN assign THEN assign[f] ELSE Absent]

SenderFields ==
    [name |-> Str("iPhone"), model |-> Str("iPhone14,2"),
     deviceID |-> Str("AA:BB:CC:DD:EE:FF"), macAddress |-> Str("AA:BB:CC:DD:EE:FF"),
     osName |-> Str("iPhone OS"), osVersion |-> Str("17.0"),
     osBuildVersion |-> Str("21A329"), ekey |-> Data, eiv |-> Data]

WithTiming(fields, proto, port) ==
    InfoOf([f \in DOMAIN fields \cup {"timingProtocol", "timingPort"} |->
              IF f = "timingProtocol" THEN proto
              ELSE IF f = "timingPort" THEN port ELSE fields[f]])

\* the bodies a sender starts from
Templates ==
    { [info |-> InfoOf(<<>>), streams |-> NoStreams],
      [info |-> WithTiming(SenderFields, Str("PTP"), Absent), streams |-> NoStreams],
      [info |-> WithTiming(SenderFields, Str("NTP"), UInt(7010)), streams |-> NoStreams],
      [info |-> InfoOf(<<>>), streams |-> List(<<>>)],
      [info |-> InfoOf(<<>>),
       streams |-> List(<< WithType(AudioRealtimeFields, UInt(AUDIO_REALTIME)),
                           WithType(AudioBufferedFields, UInt(AUDIO_BUFFERED)),
                           WithType(VideoFields, UInt(VIDEO)) >>)] }

\* the values a sender may give a sender-info field
FieldValues(f) ==
    IF f = "timingProtocol"
    THEN {Absent, Str("PTP"), Str("NTP"), Str("None"), UInt(1)}
    ELSE IF f = "timingPort"
    THEN {Absent, UInt(7010), UInt(U16Max + 1), Str("7010")}
    ELSE IF f \in {"ekey", "eiv"}
    THEN {Absent, Data, UInt(1)}
    ELSE {Absent, Str("x"), UInt(1)}

InsertAt(l, i, e) == SubSeq(l, 1, i - 1) \o <<e>> \o SubSeq(l, i, Len(l))

NoResponse == [variant |-> "", fields |-> <<>>]

DtoIdle ==
    /\ body = [info |-> InfoOf(<<>>), streams |-> NoStreams]
    /\ edits = 0
    /\ setupOut = NoResult
    /\ teardownOut = NoResult
    /\ respOut = NoResponse

NotCalled == [tag |-> "", val |-> <<>>, trace |-> <<>>,
              codec |-> "", walked |-> FALSE, marker |-> <<>>]

BoxIdle ==
    /\ header = <<>>
    /\ nops = 0
    /\ codecOut = ""
    /\ recordOut = NotCalled
    /\ boxOut = NotCalled

\* the streams of a session; transcode runs once for each stream spawned
StreamIds == {1, 2}

\* the state in which the workers in `running` have just been spawned
WorkerInit(running) ==
    /\ chan = [s \in StreamIds |-> <<>>]
    /\ closed = [s \in StreamIds |-> FALSE]
    /\ sent = [s \in StreamIds |-> 0]
    /\ pc = [s \in StreamIds |-> IF s \in running THEN "recv" ELSE "off"]
    /\ ctx = [s \in StreamIds |-> 0]
    /\ ret = [s \in StreamIds |-> ""]
    /\ pipes = [s \in StreamIds |-> <<>>]
    /\ dropped = [s \in StreamIds |-> {}]

WorkerIdle == WorkerInit({})

(* video_channel(): the channel is empty and open; no frame was sent, and  *)
(* VideoView::new leaves latest_frame None                                 *)
UiInit ==
    /\ queue = <<>>
    /\ frames = <<>>
    /\ received = <<>>
    /\ rxClosed = FALSE
    /\ lost = <<>>
    /\ latest_frame = 0

InitDto ==
    /\ body \in Templates
    /\ edits = 0
    /\ setupOut = NoResult
    /\ teardownOut = NoResult
    /\ respOut = NoResponse
    /\ BoxIdle
    /\ WorkerIdle
    /\ UiInit

\* the body is still with the sender: the receiver has decoded nothing yet
Unsent == setupOut = NoResult /\ teardownOut = NoResult

\* the sender sets, replaces or removes one sender-info field
SetField(f, v) ==
    /\ Unsent
    /\ edits < MaxEdits
    /\ body.info[f] # v
    /\ body' = [body EXCEPT !.info[f] = v]
    /\ edits' = edits + 1
    /\ UNCHANGED <<setupOut, teardownOut, respOut>>
    /\ UNCHANGED <<boxVars, workerVars, uiVars>>

\* the sender makes `streams` absent, a non-list, or an empty list
SetStreams(s) ==
    /\ Unsent
    /\ edits < MaxEdits
    /\ body.streams # s
    /\ body' = [body EXCEPT !.streams = s]
    /\ edits' = edits + 1
    /\ UNCHANGED <<setupOut, teardownOut, respOut>>
    /\ UNCHANGED <<boxVars, workerVars, uiVars>>

\* the sender inserts one element into the `streams` list at position i
InsertStream(i, e) ==
    /\ Unsent
    /\ edits < MaxEdits
    /\ body.streams.k = "list"
    /\ i \in 1..(Len(body.streams.l) + 1)
    /\ body' = [body EXCEPT !.streams.l = InsertAt(body.streams.l, i, e)]
    /\ edits' = edits + 1
    /\ UNCHANGED <<setupOut, teardownOut, respOut>>
    /\ UNCHANGED <<boxVars, workerVars, uiVars>>

\* the receiver decodes the body of a SETUP request
decode_setup ==
    /\ setupOut' = SetupRequest_deserialize(body)
    /\ UNCHANGED <<body, edits, teardownOut, respOut>>
    /\ UNCHANGED <<boxVars, workerVars, uiVars>>

\* the receiver decodes the body of a TEARDOWN request
decode_teardown ==
    /\ teardownOut' = Teardown_deserialize(body)
    /\ UNCHANGED <<body, edits, setupOut, respOut>>
    /\ UNCHANGED <<boxVars, workerVars, uiVars>>

NextDto ==
    \/ \E f \in InfoFields : \E v \in FieldValues(f) : SetField(f, v)
    \/ \E s \in {NoStreams, BadStreams, List(<<>>)} : SetStreams(s)
    \/ \E e \in Elems : \E i \in 1..(Len(body.streams.l) + 1) : InsertStream(i, e)
    \/ decode_setup
    \/ decode_teardown

SpecDto == InitDto /\ [][NextDto]_vars

(* ------------------ encoding the per-stream responses ------------------- *)

Responses ==
    [variant : {"AudioRealtime", "AudioBuffered", "Video"},
     id : {0, 1, 2, 2147483647},
     local_data_port : {0, 1, 7000, U16Max},
     extra : {0, 6002, U16Max, 1048576}]

InitEnc == DtoIdle /\ BoxIdle /\ WorkerIdle /\ UiInit

\* the receiver encodes the response for one stream
encode_stream_response(r) ==
    /\ respOut' = [variant |-> r.variant, fields |-> StreamResponse_serialize(r)]
    /\ UNCHANGED <<body, edits, setupOut, teardownOut>>
    /\ UNCHANGED <<boxVars, workerVars, uiVars>>

NextEnc == \E r \in Responses : encode_stream_response(r)

SpecEnc == InitEnc /\ [][NextEnc]_vars

(* ---------------------- the header buffers parsed ----------------------- *)

to_be_bytes(n) == <<n \div 16777216, (n \div 65536) % 256, (n \div 256) % 256, n % 256>>

\* n payload bytes, different for each operation k that adds a record
Payload(n, k) == [i \in 1..n |-> 16 * (k + 1) + i]
Fill(n) == [i \in 1..n |-> 0]

\* a record: size field, tag, body
Record(size, tag, recBody) == to_be_bytes(size) \o tag \o recBody

InitBox == DtoIdle /\ BoxIdle /\ WorkerIdle /\ UiInit

\* the buffer is still being assembled: nothing has parsed it yet
Unparsed == codecOut = "" /\ recordOut = NotCalled /\ boxOut = NotCalled

Assemble(buf) ==
    /\ Unparsed
    /\ nops < MaxOps
    /\ header' = buf
    /\ nops' = nops + 1
    /\ UNCHANGED <<codecOut, recordOut, boxOut>>
    /\ UNCHANGED <<dtoVars, workerVars, uiVars>>

\* a well-formed record with an n-byte payload is appended
AddRecord(tag, n) == Assemble(header \o Record(8 + n, tag, Payload(n, nops)))

\* a well-formed record with a one-byte payload is put in front
AddFront(tag) == Assemble(Record(9, tag, Payload(1, nops)) \o header)

\* a record declaring length zero, followed by one byte, is appended
AddZero(tag) == Assemble(header \o Record(0, tag, Payload(1, nops)))

\* an 8-byte record declaring a length it does not have is appended
AddBad(size) == Assemble(header \o Record(size, free, <<>>))

\* the whole buffer becomes the body of a record with this tag
Wrap(tag) == Assemble(Record(8 + Len(header), tag, header))

\* the whole buffer becomes the body of a sample entry, after its fixed fields
WrapEntry(tag) ==
    Assemble(Record(8 + VIDEO_SAMPLE_ENTRY_FIELDS_LEN + Len(header), tag,
                    Fill(VIDEO_SAMPLE_ENTRY_FIELDS_LEN) \o header))

\* the last byte is cut off
Truncate == Len(header) > 0 /\ Assemble(SubSeq(header, 1, Len(header) - 1))

\* one byte is put in front
PushFront(b) == Assemble(<<b>> \o header)

call_detect_codec ==
    /\ Unparsed
    /\ codecOut' = detect_codec(header)
    /\ UNCHANGED <<header, nops, recordOut, boxOut>>
    /\ UNCHANGED <<dtoVars, workerVars, uiVars>>

call_extract_codec_record(codec) ==
    /\ Unparsed
    /\ recordOut' = extract_codec_record(header, codec)
    /\ UNCHANGED <<header, nops, codecOut, boxOut>>
    /\ UNCHANGED <<dtoVars, workerVars, uiVars>>

call_find_box_payload(marker) ==
    /\ Unparsed
    /\ boxOut' = Called(find_box_payload(header, marker), "", TRUE, marker)
    /\ UNCHANGED <<header, nops, codecOut, recordOut>>
    /\ UNCHANGED <<dtoVars, workerVars, uiVars>>

NextBox ==
    \/ \E n \in 0..MaxPayload : AddRecord(avcC, n)
    \/ \E tag \in {hvcC, free} : AddRecord(tag, 1)
    \/ \E tag \in {avcC, free} : AddFront(tag)
    \/ \E tag \in {avcC, free} : AddZero(tag)
    \/ \E size \in {4, 9} : AddBad(size)
    \/ \E tag \in ContainerKinds \cup {free} : Wrap(tag)
    \/ \E tag \in SampleEntryKinds : WrapEntry(tag)
    \/ Truncate
    \/ PushFront(1)
    \/ call_detect_codec
    \/ \E codec \in VideoCodec : call_extract_codec_record(codec)
    \/ \E marker \in {avcC, hvcC} : call_find_box_payload(marker)

SpecBox == InitBox /\ [][NextBox]_vars

(* The walker alone, searching for avcC: header buffers are assembled from *)
(* target records, records of another kind, records declaring length zero  *)
(* or a wrong length, containers, sample entries and truncation.           *)
NextWalk ==
    \/ \E n \in 1..MaxPayload : AddRecord(avcC, n)
    \/ AddRecord(free, 1)
    \/ \E tag \in {avcC, free} : AddZero(tag)
    \/ \E size \in {4, 9} : AddBad(size)
    \/ \E tag \in ContainerKinds \cup {free} : Wrap(tag)
    \/ \E tag \in SampleEntryKinds : WrapEntry(tag)
    \/ Truncate
    \/ call_find_box_payload(avcC)

SpecWalk == InitBox /\ [][NextWalk]_vars

(* ======================================================================= *)
(*                  video.rs : transcode, one worker per stream            *)
(* ======================================================================= *)

PacketKind == {"AvcC", "Payload", "Other"}

\* a VideoPacket; seq is its position among the packets sent on the stream
Packet(kind, seq) == [kind |-> kind, seq |-> seq]

(* struct Context, as create_stream returns it: the pipeline is Playing.   *)
(* born is the packet it was created from, state the state last requested *)
(* of the pipeline with set_state, eos whether an Eos event was sent to    *)
(* the pipeline, pushed the payloads pushed to its appsrc, bus the         *)
(* messages waiting on the pipeline's bus, has_bus what pipeline.bus()     *)
(* answers.                                                                *)
NewContext(born, has_bus) ==
    [born |-> born, state |-> "Playing", has_bus |-> has_bus, eos |-> FALSE,
     pushed |-> <<>>, bus |-> <<>>]

\* mutant: the Context is forgotten without its Drop running
Drop_Leak(cs, c) == cs

\* impl Drop for Context: pipeline.set_state(State::Null); c = 0 drops None
Drop(cs, c) == IF c = 0 THEN cs ELSE [cs EXCEPT ![c].state = "Null"]

(* how many packets the producer of one stream sends: the streams of a     *)
(* session share the packets sent in a run evenly                          *)
PacketBudget == MaxPackets \div Cardinality({s \in StreamIds : pc[s] # "off"})

\* the producer sends one packet
Send(s, kind) ==
    /\ pc[s] \in {"recv", "bus"}
    /\ ~closed[s]
    /\ sent[s] < PacketBudget
    /\ sent' = [sent EXCEPT ![s] = @ + 1]
    /\ chan' = [chan EXCEPT ![s] = Append(@, Packet(kind, sent[s] + 1))]
    /\ UNCHANGED <<closed, pc, ctx, ret, pipes, dropped>>
    /\ UNCHANGED <<dtoVars, boxVars, uiVars>>

\* the producer drops its Sender: the channel is closed
Close(s) ==
    /\ pc[s] \in {"recv", "bus"}
    /\ ~closed[s]
    /\ closed' = [closed EXCEPT ![s] = TRUE]
    /\ UNCHANGED <<chan, sent, pc, ctx, ret, pipes, dropped>>
    /\ UNCHANGED <<dtoVars, boxVars, uiVars>>

\* `let Some(state) = &ctx else { continue; }`: where the loop goes next
AfterPacket(c) == IF c = 0 THEN "recv" ELSE "bus"

\* mutant: the new Context is stored without the one it replaces being dropped
RecvAvcC_KeepOld(s, pkt, ok, has_bus) ==
    IF ok
    THEN /\ pipes' = [pipes EXCEPT ![s] = Append(@, NewContext(pkt.seq, has_bus))]
         /\ ctx' = [ctx EXCEPT ![s] = Len(pipes[s]) + 1]
         /\ pc' = [pc EXCEPT ![s] = "bus"]
         /\ UNCHANGED <<ret, dropped>>
    ELSE /\ pc' = [pc EXCEPT ![s] = AfterPacket(ctx[s])]
         /\ UNCHANGED <<ctx, ret, pipes, dropped>>

(* PacketKind::AvcC: create_stream(payload, id).  Whether it succeeds is   *)
(* GStreamer's answer (ok); on success the new Context replaces ctx and    *)
(* the one it replaces is dropped, on failure the error is logged.         *)
RecvAvcC(s, pkt, ok, has_bus) ==
    IF ok
    THEN /\ pipes' = [pipes EXCEPT ![s] =
                        Append(Drop(@, ctx[s]), NewContext(pkt.seq, has_bus))]
         /\ ctx' = [ctx EXCEPT ![s] = Len(pipes[s]) + 1]
         /\ pc' = [pc EXCEPT ![s] = "bus"]
         /\ UNCHANGED <<ret, dropped>>
    ELSE /\ pc' = [pc EXCEPT ![s] = AfterPacket(ctx[s])]
         /\ UNCHANGED <<ctx, ret, pipes, dropped>>

\* mutant: a payload that finds no context is put back on the channel
RecvPayload_Requeue(s, pkt, ok) ==
    IF ctx[s] = 0
    THEN /\ chan' = [chan EXCEPT ![s] = Append(Tail(@), pkt)]
         /\ pc' = [pc EXCEPT ![s] = "recv"]
         /\ UNCHANGED <<ctx, ret, pipes, dropped>>
    ELSE /\ chan' = [chan EXCEPT ![s] = Tail(@)]
         /\ pipes' = [pipes EXCEPT ![s][ctx[s]].pushed =
                        IF ok THEN Append(@, pkt.seq) ELSE @]
         /\ pc' = [pc EXCEPT ![s] = "bus"]
         /\ UNCHANGED <<ctx, ret, dropped>>

(* PacketKind::Payload: without a context the packet is dropped with a     *)
(* warning and the loop continues; with one it is pushed to the appsrc,    *)
(* and a failed push (ok false) is only logged.                            *)
RecvPayload(s, pkt, ok) ==
    /\ chan' = [chan EXCEPT ![s] = Tail(@)]
    /\ IF ctx[s] = 0
       THEN /\ dropped' = [dropped EXCEPT ![s] = @ \cup {pkt.seq}]
            /\ pc' = [pc EXCEPT ![s] = "recv"]
            /\ UNCHANGED <<ctx, ret, pipes>>
       ELSE /\ pipes' = [pipes EXCEPT ![s][ctx[s]].pushed =
                            IF ok THEN Append(@, pkt.seq) ELSE @]
            /\ pc' = [pc EXCEPT ![s] = "bus"]
            /\ UNCHANGED <<ctx, ret, dropped>>

\* mutant: on closure the worker goes on to the bus without sending Eos
RecvClosed_NoEos(s) ==
    IF ctx[s] = 0
    THEN /\ pc' = [pc EXCEPT ![s] = "done"]
         /\ ret' = [ret EXCEPT ![s] = "Ok"]
         /\ UNCHANGED <<chan, ctx, pipes, dropped>>
    ELSE /\ pc' = [pc EXCEPT ![s] = "bus"]
         /\ UNCHANGED <<chan, ctx, ret, pipes, dropped>>

(* rx.recv() answered Err: the channel is closed and empty.  Without a     *)
(* context transcode returns Ok; with one it sends the Eos event to the    *)
(* context's pipeline and goes on to the bus.                              *)
RecvClosed(s) ==
    IF ctx[s] = 0
    THEN /\ pc' = [pc EXCEPT ![s] = "done"]
         /\ ret' = [ret EXCEPT ![s] = "Ok"]
         /\ UNCHANGED <<chan, ctx, pipes, dropped>>
    ELSE /\ pipes' = [pipes EXCEPT ![s][ctx[s]].eos = TRUE]
         /\ pc' = [pc EXCEPT ![s] = "bus"]
         /\ UNCHANGED <<chan, ctx, ret, dropped>>

\* mutant: rx.recv() on the closed and empty channel waits for a packet
Recv_BlockOnClosed(s, ok, has_bus) ==
    /\ pc[s] = "recv"
    /\ chan[s] # <<>>
    /\ LET pkt == Head(chan[s]) IN
       IF pkt.kind = "AvcC"
       THEN /\ chan' = [chan EXCEPT ![s] = Tail(@)]
            /\ RecvAvcC(s, pkt, ok, has_bus)
       ELSE IF pkt.kind = "Payload"
       THEN RecvPayload(s, pkt, ok)
       ELSE /\ chan' = [chan EXCEPT ![s] = Tail(@)]
            /\ pc' = [pc EXCEPT ![s] = AfterPacket(ctx[s])]
            /\ UNCHANGED <<ctx, ret, pipes, dropped>>
    /\ UNCHANGED <<closed, sent>>
    /\ UNCHANGED <<dtoVars, boxVars, uiVars>>

(* transcode, from `rx.recv()` to the end of the match or of the else      *)
(* branch: a packet is taken, or the closed and empty channel is seen.     *)
Recv(s, ok, has_bus) ==
    /\ pc[s] = "recv"
    /\ IF chan[s] # <<>>
       THEN LET pkt == Head(chan[s]) IN
            IF pkt.kind = "AvcC"
            THEN /\ chan' = [chan EXCEPT ![s] = Tail(@)]
                 /\ RecvAvcC(s, pkt, ok, has_bus)
            ELSE IF pkt.kind = "Payload"
            THEN RecvPayload(s, pkt, ok)
            ELSE /\ chan' = [chan EXCEPT ![s] = Tail(@)]
                 /\ pc' = [pc EXCEPT ![s] = AfterPacket(ctx[s])]
                 /\ UNCHANGED <<ctx, ret, pipes, dropped>>
       ELSE /\ closed[s]
            /\ RecvClosed(s)
    /\ UNCHANGED <<closed, sent>>
    /\ UNCHANGED <<dtoVars, boxVars, uiVars>>

\* the first Eos or Error message of a bus, "" if it holds none
FirstFiltered(bus) ==
    IF \E i \in 1..Len(bus) : bus[i] \in {"Eos", "Error"}
    THEN bus[CHOOSE i \in 1..Len(bus) :
                /\ bus[i] \in {"Eos", "Error"}
                /\ \A j \in 1..(i - 1) : bus[j] \notin {"Eos", "Error"}]
    ELSE ""

\* mutant: a return stops the pipelines of every stream of the session
Return_StopAll(s, result) ==
    /\ pc' = [pc EXCEPT ![s] = "done"]
    /\ ret' = [ret EXCEPT ![s] = result]
    /\ pipes' = [t \in StreamIds |-> Drop(pipes[t], ctx[t])]
    /\ ctx' = [ctx EXCEPT ![s] = 0]

\* transcode returns: the function's locals, ctx among them, are dropped
Return(s, result) ==
    /\ pc' = [pc EXCEPT ![s] = "done"]
    /\ ret' = [ret EXCEPT ![s] = result]
    /\ pipes' = [pipes EXCEPT ![s] = Drop(@, ctx[s])]
    /\ ctx' = [ctx EXCEPT ![s] = 0]

(* transcode, from `let bus = state.pipeline.bus()` to the end of the loop *)
(* body: iter_filtered pops, without waiting, the messages on the bus;     *)
(* the first Eos returns Ok, the first Error returns Err, and when there   *)
(* is neither the loop starts over.                                        *)
PollBus(s) ==
    /\ pc[s] = "bus"
    /\ LET c == pipes[s][ctx[s]] IN
       IF ~c.has_bus THEN Return(s, "Err")
       ELSE IF FirstFiltered(c.bus) = "Eos" THEN Return(s, "Ok")
       ELSE IF FirstFiltered(c.bus) = "Error" THEN Return(s, "Err")
       ELSE /\ pipes' = [pipes EXCEPT ![s][ctx[s]].bus = <<>>]
            /\ pc' = [pc EXCEPT ![s] = "recv"]
            /\ UNCHANGED <<ctx, ret>>
    /\ UNCHANGED <<chan, closed, sent, dropped>>
    /\ UNCHANGED <<dtoVars, boxVars, uiVars>>

(* GStreamer: the pipeline of the stream's context posts a message: an     *)
(* error or another message at any time while it is Playing, Eos once the  *)
(* Eos event was sent to it.                                               *)
Post(s, msg) ==
    /\ pc[s] \in {"recv", "bus"}
    /\ ctx[s] # 0
    /\ pipes[s][ctx[s]].state = "Playing"
    /\ Len(pipes[s][ctx[s]].bus) < MaxBus
    /\ msg = "Eos" => pipes[s][ctx[s]].eos
    /\ pipes' = [pipes EXCEPT ![s][ctx[s]].bus = Append(@, msg)]
    /\ UNCHANGED <<chan, closed, sent, pc, ctx, ret, dropped>>
    /\ UNCHANGED <<dtoVars, boxVars, uiVars>>

WorkerNext(s) ==
    \/ \E kind \in PacketKind : Send(s, kind)
    \/ Close(s)
    \/ \E ok \in BOOLEAN : \E has_bus \in BOOLEAN : Recv(s, ok, has_bus)
    \/ PollBus(s)
    \/ \E msg \in {"Eos", "Error", "Other"} : Post(s, msg)

Init == DtoIdle /\ BoxIdle /\ WorkerInit({1}) /\ UiInit

Next == WorkerNext(1)

Spec == Init /\ [][Next]_vars

(* the worker's thread is scheduled: a step of transcode that can be taken *)
(* is taken.  rx.recv() answers when the channel holds a packet or is      *)
(* closed; the bus is read without waiting.                                *)
WorkerRuns(s) ==
    /\ WF_vars(\E ok \in BOOLEAN : \E has_bus \in BOOLEAN : Recv(s, ok, has_bus))
    /\ WF_vars(PollBus(s))

(* GStreamer: a pipeline that was sent the Eos event posts an Eos or an    *)
(* Error message                                                           *)
PostsAfterEos(s) ==
    /\ ctx[s] # 0
    /\ pipes[s][ctx[s]].eos
    /\ Post(s, "Eos") \/ Post(s, "Error")

(* the worker of one stream with its thread scheduled and its pipeline     *)
(* answering the Eos event.  The bus of the model is bounded, so the       *)
(* message may have to wait for the worker to empty the bus: the fairness  *)
(* of the pipeline's answer is strong.                                     *)
NextLive ==
    \/ \E kind \in {"AvcC", "Payload"} : sent[1] < MaxLive /\ Send(1, kind)
    \/ Close(1)
    \/ \E ok \in BOOLEAN : \E has_bus \in BOOLEAN : Recv(1, ok, has_bus)
    \/ PollBus(1)
    \/ \E msg \in {"Eos", "Error", "Other"} : Post(1, msg)

SpecLive == Init /\ [][NextLive]_vars /\ WorkerRuns(1) /\ SF_vars(PostsAfterEos(1))

\* two streams of one session, each with its own worker thread
InitStreams == DtoIdle /\ BoxIdle /\ WorkerInit(StreamIds) /\ UiInit

NextStreams == \E s \in StreamIds : WorkerNext(s)

SpecStreams == InitStreams /\ [][NextStreams]_vars

(* ======================================================================= *)
(*                     ui.rs : the frame channel                           *)
(* ======================================================================= *)

\* the decode pipelines whose appsink callbacks hold a clone of the FrameSink
Pipelines == {1, 2}

\* async_channel::bounded(2)
QueueCapacity == 2

\* a VideoFrame: the pipeline it comes from and its place among the frames sent
VideoFrame(p, n) == [from |-> p, n |-> n]

\* mutant: a full channel gives up its oldest frame for the new one
try_send_EvictOldest(q, isClosed, frame) ==
    IF isClosed THEN [queue |-> q, err |-> "Closed"]
    ELSE IF Len(q) >= QueueCapacity THEN [queue |-> Append(Tail(q), frame), err |-> ""]
    ELSE [queue |-> Append(q, frame), err |-> ""]

(* Sender::try_send: never waits.  A closed channel answers Closed, a full *)
(* one Full, and the channel is left as it was; otherwise the frame is     *)
(* put at the back.                                                        *)
try_send(q, isClosed, frame) ==
    IF isClosed THEN [queue |-> q, err |-> "Closed"]
    ELSE IF Len(q) >= QueueCapacity THEN [queue |-> q, err |-> "Full"]
    ELSE [queue |-> Append(q, frame), err |-> ""]

(* FrameSink::send: try_send, and on an error the frame is dropped with a  *)
(* log line, debug for Full and warn for Closed                            *)
FrameSink_send(frame) ==
    LET r == try_send(queue, rxClosed, frame) IN
    /\ queue' = r.queue
    /\ lost' = IF r.err = "" THEN lost
               ELSE Append(lost, [n |-> frame.n, err |-> r.err])

(* the new_sample callback of pipeline p's appsink: a sample that cannot   *)
(* be pulled, mapped or laid out returns a FlowError and sends nothing; a  *)
(* good one is copied into a VideoFrame and handed to dispatcher.send      *)
new_sample(p, good) ==
    /\ Len(frames) < MaxFrames
    /\ IF good
       THEN LET frame == VideoFrame(p, Len(frames) + 1) IN
            /\ frames' = Append(frames, frame)
            /\ FrameSink_send(frame)
       ELSE UNCHANGED <<frames, queue, lost>>
    /\ UNCHANGED <<received, rxClosed, latest_frame>>
    /\ UNCHANGED <<dtoVars, boxVars, workerVars>>

(* the task VideoView::new spawns, one turn of `while let Ok(frame) =      *)
(* frames.recv().await`: the oldest frame is taken; a frame built by       *)
(* new_sample always converts to an image; view.update stores it, or, the  *)
(* view being gone (alive false), fails: the loop breaks and the Receiver  *)
(* is dropped, which closes the channel.                                   *)
recv(alive) ==
    /\ ~rxClosed
    /\ queue # <<>>
    /\ queue' = Tail(queue)
    /\ received' = Append(received, Head(queue))
    /\ latest_frame' = IF alive THEN Head(queue).n ELSE latest_frame
    /\ rxClosed' = ~alive
    /\ UNCHANGED <<frames, lost>>
    /\ UNCHANGED <<dtoVars, boxVars, workerVars>>

InitUi == DtoIdle /\ BoxIdle /\ WorkerIdle /\ UiInit

NextUi ==
    \/ \E p \in Pipelines : \E good \in BOOLEAN : new_sample(p, good)
    \/ \E alive \in BOOLEAN : recv(alive)

SpecUi == InitUi /\ [][NextUi]_vars

(* ======================================================================= *)
(*                               the claims                                *)
(* ======================================================================= *)

(* The wire formats as the protocol states them, written independently of  *)
(* the decoders above.                                                     *)
StreamCodes == {AUDIO_REALTIME, AUDIO_BUFFERED, VIDEO}

\* a phase-1 body: {name, model, deviceID, macAddress, osName?, osVersion?,
\* osBuildVersion?, ekey, eiv, timingProtocol: "PTP"|"NTP", timingPort?}
ValidPhase1(b) ==
    /\ \A f \in {"name", "model", "deviceID", "macAddress"} : b.info[f].k = "str"
    /\ \A f \in {"osName", "osVersion", "osBuildVersion"} :
            b.info[f].k \in {"absent", "str"}
    /\ \A f \in {"ekey", "eiv"} : b.info[f].k = "bytes"
    /\ \/ b.info["timingProtocol"] = Str("PTP")
       \/ /\ b.info["timingProtocol"] = Str("NTP")
          /\ b.info["timingPort"].k = "uint"
          /\ b.info["timingPort"].n <= U16Max

HasAll(e, fields) == \A f \in fields : e[f].k # "absent"
WellTyped(e) ==
    /\ \A f \in {"ct", "audioFormatIndex"} :
            e[f].k = "absent" \/ (e[f].k = "uint" /\ e[f].n <= 255)
    /\ \A f \in {"audioFormat", "spf", "sr", "latencyMin", "latencyMax",
                  "latencyMs", "streamConnectionID"} : e[f].k \in {"absent", "uint"}
    /\ e["controlPort"].k = "absent"
          \/ (e["controlPort"].k = "uint" /\ e["controlPort"].n <= U16Max)
    /\ e["shk"].k \in {"absent", "bytes"}
    /\ e["clientID"].k \in {"absent", "str"}

\* an element of a phase-2 body: {type: 96|103|110, ..type-specific fields}
ValidStreamRequest(e) ==
    /\ e["type"].k = "uint"
    /\ e["type"].n \in StreamCodes
    /\ WellTyped(e)
    /\ e["type"].n = AUDIO_REALTIME =>
            HasAll(e, {"ct", "audioFormat", "spf", "sr", "latencyMin",
                       "latencyMax", "controlPort"})
    /\ e["type"].n = AUDIO_BUFFERED => HasAll(e, {"ct", "audioFormat", "spf", "shk"})
    /\ e["type"].n = VIDEO => HasAll(e, {"streamConnectionID", "latencyMs"})

\* a phase-2 body: {streams: [..]}, which is not also a phase-1 body
ValidPhase2(b) ==
    /\ b.streams.k = "list"
    /\ \A i \in 1..Len(b.streams.l) : ValidStreamRequest(b.streams.l[i])
    /\ ~ValidPhase1(b)

C1_WitnessStreams ==
    /\ setupOut.tag = "Streams"
    /\ ValidPhase2(body)
    /\ Len(body.streams.l) > 1

HasUnknownCode(l) ==
    \E i \in 1..Len(l) : l[i]["type"].k = "uint" /\ l[i]["type"].n \notin StreamCodes

(* C2: decoding a streams-phase body (one that is not a phase-1 body)      *)
(* fails as a whole whenever some element of the list, at any position,    *)
(* carries a type code outside {96, 103, 110}: the result is an error and  *)
(* it holds no stream request, however many other elements are valid.      *)
C2_UnknownTypeRejectsAll ==
    (/\ setupOut # NoResult
     /\ body.streams.k = "list"
     /\ HasUnknownCode(body.streams.l)
     /\ ~ValidPhase1(body))
        => setupOut.tag = "Err" /\ setupOut.requests = <<>>

\* the unknown code is not the first element and three others are valid
C2_Witness ==
    /\ setupOut.tag = "Err"
    /\ body.streams.k = "list"
    /\ Len(body.streams.l) = 4
    /\ ~HasUnknownCode(SubSeq(body.streams.l, 1, 1))
    /\ HasUnknownCode(body.streams.l)
    /\ Cardinality({i \in 1..4 : ValidStreamRequest(body.streams.l[i])}) = 3

TypeField(fields) ==
    LET i == CHOOSE j \in 1..Len(fields) : fields[j].name = "type"
    IN fields[i].value

(* C8: for each of the three variants, the `type` field of the encoded     *)
(* StreamResponse is a code that, in a decoded StreamRequest, selects the  *)
(* same variant, whatever the other response fields are.                   *)
C8_ResponseTypeRoundTrip ==
    respOut # NoResponse =>
        /\ \E j \in 1..Len(respOut.fields) : respOut.fields[j].name = "type"
        /\ \E e \in Elems :
              /\ e["type"] = UInt(TypeField(respOut.fields))
              /\ StreamRequest_deserialize(e).tag = respOut.variant
        /\ \A e \in Elems :
              (/\ e["type"] = UInt(TypeField(respOut.fields))
               /\ StreamRequest_deserialize(e).tag # "Err")
                  => StreamRequest_deserialize(e).tag = respOut.variant

C8_Witness ==
    /\ respOut.variant = "Video"
    /\ TypeField(respOut.fields) = VIDEO
    /\ respOut.fields[2].value > 1

(* C9: decode_teardown tells an absent `streams` field from a present one: *)
(* an absent field decodes to no list, a present empty list decodes        *)
(* without error to an empty list, and a present list never decodes to no  *)
(* list.                                                                   *)
C9_TeardownAbsentVsEmpty ==
    teardownOut # NoResult =>
        /\ body.streams.k = "absent" => teardownOut.tag = "None"
        /\ body.streams = List(<<>>) =>
                teardownOut.tag = "Some" /\ teardownOut.requests = <<>>
        /\ body.streams.k # "absent" => teardownOut.tag # "None"

C9_Witness ==
    /\ teardownOut.tag = "Some"
    /\ teardownOut.requests = <<>>
    /\ body.streams = List(<<>>)
    /\ edits > 0

(* ------------------------ the box walker's claims ----------------------- *)

\* the length a record at offset off declares, and its tag
DeclaredAt(buf, off) ==
    buf[off + 1] * 16777216 + buf[off + 2] * 65536 + buf[off + 3] * 256 + buf[off + 4]
TagAt(buf, off) == <<buf[off + 5], buf[off + 6], buf[off + 7], buf[off + 8]>>

\* a well-formed record with this tag lies at off and ends by `end`
RecordAt(buf, off, end, tag) ==
    /\ off + 8 <= end
    /\ end <= Len(buf)
    /\ TagAt(buf, off) = tag
    /\ DeclaredAt(buf, off) >= 8
    /\ off + DeclaredAt(buf, off) <= end

\* the payload of the record at off: the bytes after its 8-byte header
PayloadAt(buf, off) ==
    [i \in 1..(DeclaredAt(buf, off) - 8) |-> buf[off + 8 + i]]

Found(r, bytes) == r.tag = "Some" /\ r.val = bytes

(* C3: when the buffer starts with a well-formed record tagged with the    *)
(* target marker and declaring length 8+N, find_box_payload returns its N  *)
(* payload bytes; and the same when the buffer starts with a generic       *)
(* container, or with a sample entry, whose first child (for the sample    *)
(* entry: after its 78 fixed bytes) is that record.                        *)
C3_TargetPayloadReturned ==
    boxOut # NotCalled =>
        /\ RecordAt(header, 0, Len(header), boxOut.marker)
              => Found(boxOut, PayloadAt(header, 0))
        /\ \A c \in {stsd, trak, mdia, minf, stbl} :
              (/\ RecordAt(header, 0, Len(header), c)
               /\ RecordAt(header, 8, DeclaredAt(header, 0), boxOut.marker))
                  => Found(boxOut, PayloadAt(header, 8))
        /\ \A e \in {avc1, hvc1, hev1} :
              (/\ RecordAt(header, 0, Len(header), e)
               /\ RecordAt(header, 86, DeclaredAt(header, 0), boxOut.marker))
                  => Found(boxOut, PayloadAt(header, 86))

\* a two-byte payload found inside a sample entry that has a sibling after it
C3_Witness ==
    /\ boxOut.tag = "Some"
    /\ Len(boxOut.val) = 2
    /\ RecordAt(header, 0, Len(header), hev1)
    /\ RecordAt(header, 86, DeclaredAt(header, 0), boxOut.marker)
    /\ boxOut.val = PayloadAt(header, 86)
    /\ Len(header) > DeclaredAt(header, 0)

C3_WitnessTop ==
    /\ boxOut.tag = "Some"
    /\ RecordAt(header, 0, Len(header), boxOut.marker)
    /\ Len(boxOut.val) = 2

C3_WitnessContainer ==
    /\ boxOut.tag = "Some"
    /\ RecordAt(header, 0, Len(header), minf)
    /\ RecordAt(header, 8, DeclaredAt(header, 0), boxOut.marker)
    /\ Len(boxOut.val) = 1

\* the results of the calls that ran the walker
Walks == {r \in {boxOut, recordOut} : r.walked}

\* the range of a step is the whole buffer or lies inside a record visited
RangeEnclosed(r, st) ==
    \/ st.start = 0 /\ st.limit = Len(header)
    \/ \E j \in 1..Len(r.trace) :
          /\ r.trace[j].cursor + 8 <= st.start
          /\ r.trace[j].cursor + r.trace[j].size = st.limit
          /\ r.trace[j].limit >= st.limit

(* C4: on every buffer the walker reads no index outside the buffer, and   *)
(* in a nested range none outside the enclosing record's declared range;   *)
(* it returns not found for an empty buffer, for a buffer shorter than 8   *)
(* bytes, and when the first record of the buffer declares a length that   *)
(* exceeds the buffer or a non-zero length below 8.                        *)
C4_WalkerStaysInBounds ==
    \A r \in Walks :
        /\ r.tag # "Panic"
        /\ \A i \in 1..Len(r.trace) :
              /\ 0 <= r.trace[i].start
              /\ r.trace[i].start <= r.trace[i].cursor
              /\ r.trace[i].cursor < r.trace[i].hi
              /\ r.trace[i].hi <= r.trace[i].limit
              /\ r.trace[i].limit <= Len(header)
              /\ RangeEnclosed(r, r.trace[i])
        /\ Len(header) < 8 => r.tag = "None" /\ r.trace = <<>>
        /\ (/\ Len(header) >= 8
            /\ DeclaredAt(header, 0) # 0
            /\ DeclaredAt(header, 0) < 8 \/ DeclaredAt(header, 0) > Len(header))
              => r.tag = "None" /\ Len(r.trace) = 1

\* a record nested in a container declares more than the container holds
C4_Witness ==
    /\ boxOut.tag = "None"
    /\ Len(boxOut.trace) > 2
    /\ boxOut.trace[2].start = 8
    /\ boxOut.trace[2].cursor + boxOut.trace[2].size > boxOut.trace[2].limit
    /\ boxOut.trace[2].limit < Len(header)

C4_WitnessShort == boxOut.walked /\ Len(header) = 7 /\ boxOut.tag = "None"

C4_WitnessSmall ==
    /\ boxOut.walked
    /\ Len(header) >= 8
    /\ DeclaredAt(header, 0) = 4
    /\ boxOut.tag = "None"

(* C6: detect_codec returns H265 exactly when the buffer has at least 8    *)
(* bytes and bytes 4..8 are `hvc1`, H264 for every other buffer of at      *)
(* least 8 bytes, and Unknown exactly when the buffer is shorter than 8.   *)
C6_DetectCodec ==
    codecOut # "" =>
        LET isHvc1 == /\ Len(header) >= 8
                      /\ header[5] = 104 /\ header[6] = 118
                      /\ header[7] = 99 /\ header[8] = 49
        IN /\ codecOut = "H265" <=> isHvc1
           /\ codecOut = "H264" <=> (Len(header) >= 8 /\ ~isHvc1)
           /\ codecOut = "Unknown" <=> Len(header) < 8

C6_Witness ==
    /\ codecOut = "H265"
    /\ Len(header) > 94

C6_WitnessH264 == codecOut = "H264" /\ TagAt(header, 0) = hev1
C6_WitnessUnknown == codecOut = "Unknown" /\ Len(header) = 7

(* C7: for a header whose first byte is 1, extract_codec_record returns    *)
(* the whole header for every codec family and does not walk the boxes;    *)
(* otherwise it searches `avcC` for H264 and `hvcC` for H265, returning    *)
(* what the walker finds, and returns no record for Unknown.               *)
C7_ExtractCodecRecord ==
    recordOut # NotCalled =>
        IF Len(header) > 0 /\ header[1] = 1
        THEN Found(recordOut, header) /\ ~recordOut.walked
        ELSE /\ recordOut.codec = "Unknown" =>
                    recordOut.tag = "None" /\ ~recordOut.walked
             /\ recordOut.codec = "H264" =>
                    /\ recordOut.walked /\ recordOut.marker = avcC
                    /\ recordOut.tag = find_box_payload(header, avcC).tag
                    /\ recordOut.val = find_box_payload(header, avcC).val
                    /\ RecordAt(header, 0, Len(header), avcC) =>
                            Found(recordOut, PayloadAt(header, 0))
             /\ recordOut.codec = "H265" =>
                    /\ recordOut.walked /\ recordOut.marker = hvcC
                    /\ recordOut.tag = find_box_payload(header, hvcC).tag
                    /\ recordOut.val = find_box_payload(header, hvcC).val
                    /\ RecordAt(header, 0, Len(header), hvcC) =>
                            Found(recordOut, PayloadAt(header, 0))

\* first byte 1, family Unknown: the header comes back whole
C7_Witness ==
    /\ recordOut.codec = "Unknown"
    /\ recordOut.tag = "Some"
    /\ recordOut.val = header
    /\ Len(header) > 8

C7_WitnessWalk ==
    /\ recordOut.codec = "H265"
    /\ recordOut.tag = "Some"
    /\ recordOut.walked
    /\ Len(recordOut.trace) > 1

(* ----------------------------- the worker ------------------------------ *)

Contexts(s) == {pipes[s][i] : i \in 1..Len(pipes[s])}

Pushed(s) == UNION {{c.pushed[k] : k \in 1..Len(c.pushed)} : c \in Contexts(s)}

Queued(s) == {chan[s][i].seq : i \in 1..Len(chan[s])}

(* C5: a payload packet is pushed only to a pipeline that was initialized  *)
(* from a codec-configuration packet received before it, and a payload     *)
(* packet received while there was no context is gone: it is never pushed  *)
(* to a pipeline afterwards and is not kept in the channel.                *)
C5_NoPayloadBeforeInit ==
    \A s \in StreamIds :
        /\ \A c \in Contexts(s) : \A k \in 1..Len(c.pushed) : c.born < c.pushed[k]
        /\ dropped[s] \cap Pushed(s) = {}
        /\ dropped[s] \cap Queued(s) = {}

\* a payload was dropped for want of a context and a later one was pushed
C5_Witness ==
    \E p \in dropped[1] : \E q \in Pushed(1) : p < q

(* C10: once a worker has returned, whether with Ok after Eos, with Err    *)
(* after an error message or with Err for a missing bus, every context it  *)
(* created, those replaced by a later one included, was dropped: its       *)
(* pipeline was set to Null.                                               *)
C10_AllContextsReleased ==
    \A s \in StreamIds :
        pc[s] = "done" => \A c \in Contexts(s) : c.state = "Null"

\* the worker returned after it had replaced one context by another
C10_Witness ==
    /\ pc[1] = "done"
    /\ Len(pipes[1]) >= 2

\* the worker returned Ok on the Eos message of its pipeline
C10_WitnessEos ==
    /\ pc[1] = "done" /\ ret[1] = "Ok"
    /\ \E c \in Contexts(1) : c.eos /\ FirstFiltered(c.bus) = "Eos"

\* the worker returned Err on an error message of its pipeline
C10_WitnessError ==
    /\ pc[1] = "done" /\ ret[1] = "Err"
    /\ \E c \in Contexts(1) : FirstFiltered(c.bus) = "Error"

\* the worker returned Err because its pipeline had no bus
C10_WitnessNoBus ==
    /\ pc[1] = "done" /\ ret[1] = "Err"
    /\ \E c \in Contexts(1) : ~c.has_bus

\* the step in which the worker of s sees its channel closed while it holds a context
ObservesClosure(s) ==
    /\ pc[s] = "recv" /\ chan[s] = <<>> /\ closed[s] /\ ctx[s] # 0
    /\ pc'[s] # pc[s]

(* C11: in the step in which a worker sees its channel closed while it     *)
(* holds a context, the Eos event is sent to that context's pipeline and   *)
(* the worker has not returned yet; the context stays the worker's and the *)
(* record of the Eos sent to it is never taken back, so every later return *)
(* comes after the Eos.                                                    *)
C11_EosBeforeReturn ==
    [][\A s \in StreamIds :
          /\ ObservesClosure(s) =>
                /\ pipes'[s][ctx[s]].eos
                /\ pc'[s] # "done"
                /\ ctx'[s] = ctx[s]
          /\ \A i \in 1..Len(pipes[s]) :
                pipes[s][i].eos => /\ Len(pipes'[s]) >= i
                                   /\ pipes'[s][i].eos
          /\ (closed[s] /\ chan[s] = <<>>) => (closed'[s] /\ chan'[s] = <<>>)
          /\ (pc[s] = "bus" /\ pipes[s][ctx[s]].eos) => ctx'[s] \in {0, ctx[s]}
      ]_vars

\* the worker saw the closed channel, sent Eos and returned Ok on the Eos message
C11_Witness ==
    /\ pc[1] = "done" /\ ret[1] = "Ok"
    /\ closed[1] /\ chan[1] = <<>>
    /\ pipes[1] # <<>>
    /\ pipes[1][Len(pipes[1])].eos
    /\ pipes[1][Len(pipes[1])].pushed # <<>>

\* what belongs to the worker of stream t: its channel, its locals, its pipelines
Own(t) == <<chan[t], closed[t], sent[t], pc[t], ctx[t], ret[t], pipes[t], dropped[t]>>

\* the worker of s polls a bus on which the first Eos or Error message is an Error
PollsError(s) ==
    /\ pc[s] = "bus" /\ pc'[s] # "bus"
    /\ pipes[s][ctx[s]].has_bus
    /\ FirstFiltered(pipes[s][ctx[s]].bus) = "Error"

\* the worker of t holds a context and the next packet of its channel is a payload
ReadyToForward(t) ==
    /\ pc[t] = "recv" /\ ctx[t] # 0
    /\ chan[t] # <<>> /\ Head(chan[t]).kind = "Payload"

(* C12: the worker that polls an Error message returns Err, and its return *)
(* changes nothing of any other stream: channel, context and pipelines of  *)
(* the others are as before.  Next to a worker that returned Err, a worker *)
(* that holds a context and has a payload waiting takes it and pushes it   *)
(* to its own pipeline.                                                    *)
C12_ErrorIsLocal ==
    [][\A s \in StreamIds : \A t \in StreamIds \ {s} :
          /\ PollsError(s) => (pc'[s] = "done" /\ ret'[s] = "Err")
          /\ (pc[s] # "done" /\ pc'[s] = "done") => Own(t)' = Own(t)
          /\ (pc[s] = "done" /\ ret[s] = "Err" /\ ReadyToForward(t)
                /\ Own(t)' # Own(t) /\ pc'[t] # "recv")
             => /\ ctx'[t] = ctx[t]
                /\ chan'[t] = Tail(chan[t])
                /\ pipes'[t][ctx[t]].pushed
                     \in {pipes[t][ctx[t]].pushed,
                          Append(pipes[t][ctx[t]].pushed, Head(chan[t]).seq)}
      ]_vars

(* stream 1's worker returned Err on an Error message while stream 2's     *)
(* worker holds a Playing context and is about to take a payload           *)
C12_Witness ==
    /\ pc[1] = "done" /\ ret[1] = "Err"
    /\ \E c \in Contexts(1) : c.has_bus /\ FirstFiltered(c.bus) = "Error"
    /\ ReadyToForward(2)
    /\ pipes[2][ctx[2]].state = "Playing"

\* the step in which the worker of s takes an AvcC packet and create_stream fails
InitFails(s) ==
    /\ pc[s] = "recv" /\ chan[s] # <<>> /\ Head(chan[s]).kind = "AvcC"
    /\ chan'[s] = Tail(chan[s])
    /\ Len(pipes'[s]) = Len(pipes[s])

(* C13: when create_stream fails for a codec-configuration packet, the     *)
(* worker terminates and transcode returns Err.                            *)
C13_InitFailureReturnsErr ==
    [][\A s \in StreamIds :
          InitFails(s) => (pc'[s] = "done" /\ ret'[s] = "Err")]_vars

\* the packets the worker of s has taken from its channel
Taken(s) == sent[s] - Len(chan[s])

\* the contexts of s whose pipeline is Playing
Live(s) == {i \in 1..Len(pipes[s]) : pipes[s][i].state = "Playing"}

SenderIdentityOk(b) ==
    /\ \A f \in {"name", "model", "deviceID", "macAddress"} : b.info[f].k = "str"
    /\ \A f \in {"osName", "osVersion", "osBuildVersion"} :
            b.info[f].k \in {"absent", "str"}
    /\ \A f \in {"ekey", "eiv"} : b.info[f].k = "bytes"

C15_WitnessNtpNoPort ==
    /\ setupOut.tag = "Err" /\ SenderIdentityOk(body)
    /\ body.info["timingProtocol"] = Str("NTP")
    /\ body.info["timingPort"].k = "absent"

\* a body with another timingProtocol, or none, was decoded
C15_WitnessOther ==
    /\ setupOut.tag = "Err" /\ SenderIdentityOk(body)
    /\ body.info["timingProtocol"] \in {Absent, Str("None")}

(* --------------------- dto.rs : the failure reported ------------------- *)

\* the decode of the list stopped at an element whose type code is unknown
RejectedForUnknownCode(b) ==
    /\ b.streams.k = "list"
    /\ FirstBad(b.streams.l) # 0
    /\ HasUnknownCode(<<b.streams.l[FirstBad(b.streams.l)]>>)

\* what decoding reports for a body that matches neither shape
MalformedSetup == SetupRequest_deserialize([info |-> InfoOf(<<>>), streams |-> NoStreams])

(* C16: when decode_setup rejects a body because an element of its streams *)
(* list has a type code outside {96, 103, 110}, the failure reported names *)
(* the unknown stream type and carries that code, and so differs from the  *)
(* failure reported for a body that matches neither shape.                 *)
C16_UnknownStreamTypeReported ==
    (setupOut.tag = "Err" /\ RejectedForUnknownCode(body)) =>
        /\ setupOut.msg = "unknown stream type"
        /\ setupOut.code = body.streams.l[FirstBad(body.streams.l)]["type"].n
        /\ setupOut # MalformedSetup

(* --------------------- dto.rs : the Streams request -------------------- *)

\* the request variant a stream type code stands for
VariantOf(code) ==
    IF code = AUDIO_REALTIME THEN "AudioRealtime"
    ELSE IF code = AUDIO_BUFFERED THEN "AudioBuffered"
    ELSE "Video"

\* the requests are those of the list's elements, one for one and in order
RequestsFollowList ==
    /\ body.streams.k = "list"
    /\ Len(setupOut.requests) = Len(body.streams.l)
    /\ \A i \in 1..Len(body.streams.l) :
          /\ body.streams.l[i]["type"].k = "uint"
          /\ body.streams.l[i]["type"].n \in StreamCodes
          /\ setupOut.requests[i] = VariantOf(body.streams.l[i]["type"].n)

(* C17, as stated: a Streams request holds a non-empty sequence of         *)
(* requests, in the order of the body's streams list; a body with an empty *)
(* list does not decode to a Streams request.                              *)
C17_StreamsNonEmptyOrdered ==
    setupOut.tag = "Streams" =>
        /\ RequestsFollowList
        /\ setupOut.requests # <<>>
        /\ body.streams.l # <<>>

(* C17, amended: a Streams request holds one request for each element of   *)
(* the body's streams list, in the list's order; a body whose list is      *)
(* empty, when it is not a sender-info body, decodes to a Streams request  *)
(* that holds no request.                                                  *)
C17_StreamsOrdered ==
    /\ setupOut.tag = "Streams" => RequestsFollowList
    /\ (setupOut # NoResult /\ body.streams = List(<<>>) /\ ~ValidPhase1(body)) =>
          (setupOut.tag = "Streams" /\ setupOut.requests = <<>>)

\* a list holding all three kinds, not starting with the realtime audio one, was decoded
C17_Witness ==
    /\ setupOut.tag = "Streams"
    /\ Len(setupOut.requests) >= 3
    /\ Cardinality({setupOut.requests[i] : i \in 1..Len(setupOut.requests)}) = 3
    /\ setupOut.requests[1] # "AudioRealtime"

\* an empty list was decoded to a Streams request
C17_WitnessEmpty ==
    /\ setupOut.tag = "Streams"
    /\ body.streams = List(<<>>)

(* ---------------------- the box walker: which record -------------------- *)

\* the length of the record at off in a range ending at end: zero means to the end
LengthAt(buf, off, end) ==
    IF DeclaredAt(buf, off) = 0 THEN end - off ELSE DeclaredAt(buf, off)

\* a record starts at off and fits the range ending at end
FitsAt(buf, off, end) ==
    /\ off + 8 <= end
    /\ LengthAt(buf, off, end) >= 8
    /\ off + LengthAt(buf, off, end) <= end

\* where the children of the record at off start, if its kind has children
ChildrenAt(buf, off) ==
    IF TagAt(buf, off) \in {avc1, hvc1, hev1} THEN off + 8 + 78 ELSE off + 8

(* The records a search for `marker` can reach in the range [from, end):   *)
(* the records of the range one after the other up to the first that does  *)
(* not fit, and, for each that is a generic container or a sample entry    *)
(* and is not itself tagged with the marker, the records reachable in its  *)
(* body.  Each is given as its offset and the offset where it ends.        *)
RECURSIVE Reachable(_, _, _, _)
Reachable(buf, from, end, marker) ==
    IF ~FitsAt(buf, from, end) THEN {}
    ELSE LET stop == from + LengthAt(buf, from, end)
             tag == TagAt(buf, from)
         IN {<<from, stop>>}
            \cup (IF /\ tag # marker
                     /\ tag \in {avc1, hvc1, hev1, stsd, trak, mdia, minf, stbl}
                  THEN Reachable(buf, ChildrenAt(buf, from), stop, marker)
                  ELSE {})
            \cup Reachable(buf, stop, end, marker)

\* the reachable records tagged with the marker
Targets(buf, marker) ==
    {rec \in Reachable(buf, 0, Len(buf), marker) : TagAt(buf, rec[1]) = marker}

\* the target that starts first
FirstTarget(buf, marker) ==
    CHOOSE rec \in Targets(buf, marker) :
        \A other \in Targets(buf, marker) : rec[1] <= other[1]

(* C18: when one or more records tagged with the marker are reachable, the *)
(* walker returns the payload of the one with the smallest start offset,   *)
(* which is the last record it looks at: it reads nothing past that        *)
(* record's end and visits no record that starts after it.  When none is   *)
(* reachable it returns not found.                                         *)
C18_FirstMatchDepthFirst ==
    \A r \in Walks :
        IF Targets(header, r.marker) = {}
        THEN r.tag = "None"
        ELSE LET first == FirstTarget(header, r.marker) IN
             /\ r.tag = "Some"
             /\ r.val = SubSeq(header, first[1] + 9, first[2])
             /\ r.trace[Len(r.trace)].cursor = first[1]
             /\ \A i \in 1..Len(r.trace) :
                   /\ r.trace[i].cursor <= first[1]
                   /\ r.trace[i].hi <= first[2]
                   /\ i < Len(r.trace) => r.trace[i].cursor < r.trace[i + 1].cursor

\* a target inside a container was returned although another follows the container
C18_Witness ==
    /\ boxOut.tag = "Some"
    /\ Cardinality(Targets(header, boxOut.marker)) >= 2
    /\ TagAt(header, 0) \in {stsd, trak, mdia, minf, stbl}
    /\ FirstTarget(header, boxOut.marker)[1] = 8
    /\ \E rec \in Targets(header, boxOut.marker) : rec[1] >= DeclaredAt(header, 0)

\* two targets at the top level
C18_WitnessTop ==
    /\ boxOut.tag = "Some"
    /\ Cardinality(Targets(header, boxOut.marker)) >= 2
    /\ FirstTarget(header, boxOut.marker)[1] = 0

(* -------------------- the box walker: malformed branches ---------------- *)

\* step i of a walk is a record rejected for its length
RejectedAt(r, i) ==
    \/ r.trace[i].size < 8
    \/ r.trace[i].cursor + r.trace[i].size > r.trace[i].limit

\* the buffer starts with a well-formed container or sample entry whose first child is malformed
BadFirstChild(buf) ==
    /\ FitsAt(buf, 0, Len(buf))
    /\ TagAt(buf, 0) \in {avc1, hvc1, hev1, stsd, trak, mdia, minf, stbl}
    /\ ChildrenAt(buf, 0) + 8 <= LengthAt(buf, 0, Len(buf))
    /\ ~FitsAt(buf, ChildrenAt(buf, 0), LengthAt(buf, 0, Len(buf)))

(* C19: a record rejected inside a container or a sample entry ends the    *)
(* search of that body only: the walk never fails hard, a rejected record  *)
(* of a nested range is followed, when the walk goes on, by a record of an *)
(* enclosing range that starts at or after the end of the body left, and   *)
(* when the buffer starts with a well-formed container or sample entry     *)
(* whose first child is malformed and a target record follows it, that     *)
(* target's payload is returned.                                           *)
C19_MalformedBranchIsLocal ==
    \A r \in Walks :
        /\ r.tag # "Panic"
        /\ \A i \in 1..Len(r.trace) :
              (RejectedAt(r, i) /\ r.trace[i].start > 0) =>
                  /\ r.trace[i].hi <= r.trace[i].limit
                  /\ i < Len(r.trace) =>
                        /\ r.trace[i + 1].cursor >= r.trace[i].limit
                        /\ r.trace[i + 1].start < r.trace[i].start
                  /\ i = Len(r.trace) =>
                        /\ r.tag = "None"
                        /\ \A rec \in Reachable(header, 0, Len(header), r.marker) :
                              rec[1] <= r.trace[i].cursor
        /\ (/\ BadFirstChild(header)
            /\ RecordAt(header, LengthAt(header, 0, Len(header)), Len(header), r.marker))
              => Found(r, PayloadAt(header, LengthAt(header, 0, Len(header))))

\* a target was returned from behind a container whose only child is malformed
C19_Witness ==
    /\ boxOut.tag = "Some"
    /\ BadFirstChild(header)
    /\ TagAt(header, 0) \in {stsd, trak, mdia, minf, stbl}
    /\ RecordAt(header, LengthAt(header, 0, Len(header)), Len(header), boxOut.marker)
    /\ Len(boxOut.trace) = 3

\* the same behind a sample entry
C19_WitnessEntry ==
    /\ boxOut.tag = "Some"
    /\ BadFirstChild(header)
    /\ TagAt(header, 0) \in {avc1, hvc1, hev1}
    /\ RecordAt(header, LengthAt(header, 0, Len(header)), Len(header), boxOut.marker)

(* ----------------------- the box walker: other tags --------------------- *)

SearchedKinds == {avc1, hvc1, hev1, stsd, trak, mdia, minf, stbl}

\* step i of a walk is a record of another kind: not the target, not searched
SkippedAt(r, i) ==
    /\ ~RejectedAt(r, i)
    /\ TagAt(header, r.trace[i].cursor) \notin SearchedKinds \cup {r.marker}

\* buf with the bytes from lo (exclusive) to hi replaced by zeros
Blanked(buf, lo, hi) ==
    [j \in 1..Len(buf) |-> IF lo < j /\ j <= hi THEN 0 ELSE buf[j]]

\* buf with a record tagged `marker` written over the bytes from lo to hi
Planted(buf, lo, hi, marker) ==
    IF hi - lo < 8 THEN Blanked(buf, lo, hi)
    ELSE [j \in 1..Len(buf) |->
            IF lo < j /\ j <= lo + 3 THEN 0
            ELSE IF j = lo + 4 THEN hi - lo
            ELSE IF lo + 4 < j /\ j <= lo + 8 THEN marker[j - lo - 4]
            ELSE buf[j]]

\* what a walk answers, apart from the steps it took
Answer(r) == <<r.tag, r.val>>

(* C20: a record whose tag is neither the target nor a searched kind is    *)
(* stepped over by its length: the next record looked at is the one right  *)
(* after it in the same range, none of its body is read, and the answer is *)
(* the same whatever its body holds, zeros or a record tagged with the     *)
(* target.  A buffer that is one such record gives not found.              *)
C20_OtherTagsSkipped ==
    \A r \in Walks :
        /\ \A i \in 1..Len(r.trace) :
              SkippedAt(r, i) =>
                LET st == r.trace[i] IN
                /\ st.hi = st.cursor + 8
                /\ i < Len(r.trace) =>
                      /\ r.trace[i + 1].cursor >= st.cursor + st.size
                      /\ st.cursor + st.size + 8 <= st.limit =>
                            /\ r.trace[i + 1].cursor = st.cursor + st.size
                            /\ r.trace[i + 1].start = st.start
                            /\ r.trace[i + 1].limit = st.limit
                /\ Answer(find_box_payload(
                        Blanked(header, st.cursor + 8, st.cursor + st.size), r.marker))
                     = Answer(r)
                /\ Answer(find_box_payload(
                        Planted(header, st.cursor + 8, st.cursor + st.size, r.marker),
                        r.marker))
                     = Answer(r)
        /\ (/\ FitsAt(header, 0, Len(header))
            /\ LengthAt(header, 0, Len(header)) = Len(header)
            /\ TagAt(header, 0) \notin SearchedKinds \cup {r.marker})
              => r.tag = "None" /\ Len(r.trace) = 1

\* a target record lies in the body of a `free` record, and the one after it was returned
C20_Witness ==
    /\ boxOut.tag = "Some"
    /\ Len(boxOut.trace) = 2
    /\ TagAt(header, 0) = free
    /\ RecordAt(header, 8, DeclaredAt(header, 0), boxOut.marker)
    /\ boxOut.val # PayloadAt(header, 8)

\* a target record lies only in the body of a `free` record: not found
C20_WitnessOnlyInside ==
    /\ boxOut.tag = "None"
    /\ Len(header) >= 16
    /\ TagAt(header, 0) = free
    /\ DeclaredAt(header, 0) = Len(header)
    /\ RecordAt(header, 8, Len(header), boxOut.marker)

(* ---------------------- the box walker: length zero --------------------- *)

\* step i of a walk is at a record that declares length zero
ZeroAt(r, i) == DeclaredAt(header, r.trace[i].cursor) = 0

(* C21: a record that declares length zero is taken to end where its range *)
(* ends, the buffer's end at the top level: it is not rejected; when it is *)
(* tagged with the target the bytes from after its header to that end are  *)
(* returned; and no record of the same range is looked at after it.        *)
C21_ZeroLengthToEnd ==
    \A r \in Walks :
        /\ \A i \in 1..Len(r.trace) :
              ZeroAt(r, i) =>
                LET st == r.trace[i] IN
                /\ st.size = st.limit - st.cursor
                /\ st.start = 0 => st.limit = Len(header)
                /\ ~RejectedAt(r, i)
                /\ TagAt(header, st.cursor) = r.marker =>
                      /\ i = Len(r.trace)
                      /\ r.tag = "Some"
                      /\ r.val = SubSeq(header, st.cursor + 9, st.limit)
                /\ \A j \in (i + 1)..Len(r.trace) :
                      /\ ~(r.trace[j].start = st.start /\ r.trace[j].limit = st.limit)
                      /\ r.trace[j].start <= st.start => r.trace[j].cursor >= st.limit
        /\ (/\ Len(header) >= 8
            /\ DeclaredAt(header, 0) = 0
            /\ TagAt(header, 0) = r.marker)
              => Found(r, SubSeq(header, 9, Len(header)))

(* a target declaring length zero inside a container was returned up to    *)
(* the container's end, with a record following the container              *)
C21_Witness ==
    /\ boxOut.tag = "Some"
    /\ Len(boxOut.trace) = 2
    /\ ZeroAt(boxOut, 2)
    /\ boxOut.trace[2].limit < Len(header)
    /\ Len(boxOut.val) = boxOut.trace[2].limit - boxOut.trace[2].cursor - 8
    /\ boxOut.val # <<>>

\* a record of another kind declaring length zero hides the target after it
C21_WitnessHides ==
    /\ boxOut.tag = "None"
    /\ Len(boxOut.trace) = 1
    /\ ZeroAt(boxOut, 1)
    /\ TagAt(header, 0) = free
    /\ Len(header) >= 26
    /\ TagAt(header, 9) = avcC

(* ---------------------- the box walker: termination --------------------- *)

\* steps i < j of a walk belong to the same call of parse_range
SameRange(r, i, j) ==
    /\ r.trace[i].start = r.trace[j].start
    /\ r.trace[i].limit = r.trace[j].limit

\* step j is the next step after i in the call of parse_range that made i
NextInRange(r, i, j) ==
    /\ i < j
    /\ SameRange(r, i, j)
    /\ \A k \in (i + 1)..(j - 1) : ~SameRange(r, i, k)

\* step i entered the record whose body is the range of step j
Entered(r, i, j) ==
    /\ i < j
    /\ r.trace[j].start = body_start(TagAt(header, r.trace[i].cursor), r.trace[i].cursor)
    /\ r.trace[j].limit = r.trace[i].cursor + r.trace[i].size

(* C22: the walk ends on every buffer. Within one range each step moves    *)
(* the cursor on by the record's size, which is 8 or more; a nested range  *)
(* begins past the header of the record entered, ends where that record    *)
(* ends and is not empty; the cursors of a whole walk grow by 8 or more,   *)
(* so a walk has no more steps than the buffer has 8-byte headers.         *)
C22_WalkerTerminates ==
    \A r \in Walks :
        /\ r.tag \in {"None", "Some"}
        /\ Len(r.trace) * 8 <= Len(header)
        /\ \A i \in 1..Len(r.trace) : \A j \in 1..Len(r.trace) :
              /\ j = i + 1 => r.trace[j].cursor >= r.trace[i].cursor + 8
              /\ NextInRange(r, i, j) =>
                    /\ r.trace[i].size >= 8
                    /\ r.trace[j].cursor = r.trace[i].cursor + r.trace[i].size
        /\ \A j \in 1..Len(r.trace) :
              r.trace[j].start # 0 =>
                 \E i \in 1..(j - 1) :
                    /\ Entered(r, i, j)
                    /\ ~RejectedAt(r, i)
                    /\ r.trace[i].cursor + 8 <= r.trace[j].start
                    /\ r.trace[j].start < r.trace[j].limit
                    /\ r.trace[j].limit <= r.trace[i].limit
                    /\ r.trace[j].limit - r.trace[j].start < r.trace[i].size

(* a walk that went on in a range after coming back from a nested range    *)
(* and ended there on a bad size                                           *)
C22_Witness ==
    /\ boxOut.walked
    /\ \E i, j, k \in 1..Len(boxOut.trace) :
          /\ NextInRange(boxOut, i, k)
          /\ i < j /\ j < k
          /\ Entered(boxOut, i, j)
          /\ k = Len(boxOut.trace)
    /\ RejectedAt(boxOut, Len(boxOut.trace))

\* a sample entry nested in a container was entered: recursion two deep
C22_WitnessDeep ==
    /\ boxOut.walked
    /\ \E i, j, k \in 1..Len(boxOut.trace) :
          /\ Entered(boxOut, i, j)
          /\ Entered(boxOut, j, k)
          /\ TagAt(header, boxOut.trace[j].cursor) \in SampleEntryKinds

(* ------------------- the worker after the channel closed ---------------- *)

\* the worker of s sees the closed and empty channel while it holds no context
ObservesClosureIdle(s) ==
    /\ pc[s] = "recv" /\ chan[s] = <<>> /\ closed[s] /\ ctx[s] = 0
    /\ pc'[s] # pc[s]

\* the worker of s reads a bus that holds an Eos or an Error message
ObservesFinal(s) ==
    /\ pc[s] = "bus" /\ pc'[s] # pc[s]
    /\ pipes[s][ctx[s]].has_bus
    /\ FirstFiltered(pipes[s][ctx[s]].bus) # ""

(* C23: once the producer closed the channel the worker returns.  A worker *)
(* that holds no context never had a pipeline, and it returns Ok in the    *)
(* step in which it sees the closed channel; a worker that reads a bus     *)
(* holding an Eos or Error message returns in that step, Ok for Eos and    *)
(* Err for Error; and a worker at recv on a closed channel does not stay   *)
(* there.                                                                  *)
C23_ReturnsAfterClose ==
    /\ closed[1] ~> (pc[1] = "done")
    /\ (closed[1] /\ pc[1] = "recv") ~> (pc[1] # "recv")
    /\ []((ctx[1] = 0 /\ pc[1] # "done") => pipes[1] = <<>>)
    /\ [][/\ ObservesClosureIdle(1) => (pc'[1] = "done" /\ ret'[1] = "Ok")
          /\ ObservesFinal(1) =>
               /\ pc'[1] = "done"
               /\ ret'[1] = IF FirstFiltered(pipes[1][ctx[1]].bus) = "Eos"
                            THEN "Ok" ELSE "Err"
       ]_vars

(* the channel was closed with packets still waiting in it, the worker     *)
(* pushed a payload after that, sent Eos and returned on the Eos message   *)
C23_Witness ==
    /\ pc[1] = "done" /\ ret[1] = "Ok"
    /\ closed[1] /\ chan[1] = <<>>
    /\ sent[1] >= 2
    /\ pipes[1] # <<>>
    /\ pipes[1][Len(pipes[1])].eos
    /\ pipes[1][Len(pipes[1])].bus = <<"Eos">>

\* the channel was closed and the worker, never given a pipeline, returned Ok
C23_WitnessIdle ==
    /\ pc[1] = "done" /\ ret[1] = "Ok"
    /\ closed[1] /\ chan[1] = <<>>
    /\ sent[1] >= 1
    /\ pipes[1] = <<>>

(* ---------------------------- the frame channel ------------------------- *)

\* a is what is left of b when some of b's elements are taken out
RECURSIVE IsSubsequence(_, _)
IsSubsequence(a, b) ==
    IF a = <<>> THEN TRUE
    ELSE IF b = <<>> THEN FALSE
    ELSE IF Head(a) = Head(b) THEN IsSubsequence(Tail(a), Tail(b))
    ELSE IsSubsequence(a, Tail(b))

\* this step is a call of FrameSink::send
SendsFrame == Len(frames') = Len(frames) + 1

(* C24: the channel never holds more than 2 frames; a pipeline that has a  *)
(* frame can always hand it over, whatever the channel holds; a frame      *)
(* handed over while 2 frames wait or the receiver is gone is dropped and  *)
(* leaves the waiting frames as they were, any other is put behind them;   *)
(* the frames received, and those followed by the frames still waiting,    *)
(* are the frames sent with some taken out, in the order they were sent.   *)
C24_FrameQueueBounded ==
    /\ [](/\ Len(queue) <= 2
          /\ IsSubsequence(received, frames)
          /\ IsSubsequence(received \o queue, frames)
          /\ Len(frames) < MaxFrames =>
                \A p \in Pipelines : ENABLED new_sample(p, TRUE))
    /\ [][SendsFrame =>
            LET frame == frames'[Len(frames')] IN
            /\ received' = received
            /\ IF Len(queue) = 2 \/ rxClosed
               THEN /\ queue' = queue
                    /\ Len(lost') = Len(lost) + 1
                    /\ lost'[Len(lost')].n = frame.n
               ELSE /\ queue' = Append(queue, frame)
                    /\ lost' = lost
       ]_vars

(* frames of both pipelines were sent, one was dropped on the full channel *)
(* between two that were received, and one still waits                     *)
C24_Witness ==
    /\ Len(received) >= 2
    /\ Len(queue) >= 1
    /\ \E i \in 1..Len(lost) :
          /\ lost[i].err = "Full"
          /\ received[1].n < lost[i].n
          /\ lost[i].n < queue[Len(queue)].n
    /\ \E i, j \in 1..Len(frames) : frames[i].from # frames[j].from

\* a frame was dropped because the receiver was gone, a frame still waiting
C24_WitnessClosed ==
    /\ rxClosed
    /\ queue # <<>>
    /\ \E i \in 1..Len(lost) : lost[i].err = "Closed"

====
